---- MODULE Spec2Model ----
(***************************************************************************)
(* Ticket Rescue: the /match event matching engine of backend/src/server.js *)
(* (text normalisation, city / state resolution, performer variants, the    *)
(* exact / upcoming query protocol, the offer presenter).                   *)
(*                                                                          *)
(* Text is modelled at the character level: a string is a sequence of       *)
(* characters, a character is a one-letter TLA+ string (or a named          *)
(* character such as "tab" or "e_acute"), and the JavaScript regular        *)
(* expressions of the source are transcribed as regular-expression terms    *)
(* interpreted by a small backtracking matcher with JavaScript's priority   *)
(* order (greedy quantifiers, leftmost alternative first).                  *)
(***************************************************************************)
EXTENDS Integers, Sequences, FiniteSets, Bags, TLC

(***************************************************************************)
(* Characters                                                               *)
(***************************************************************************)

\* JavaScript null / undefined for a string-valued expression.  A string of
\* the model never holds the character "<null>", so NULL differs from all.
NULL == <<"<null>">>

\* a string literal as the sequence of its characters
Str(lit) == [k \in 1..Len(lit) |-> SubSeq(lit, k, k)]

LowerSeq == Str("abcdefghijklmnopqrstuvwxyz")

UpperSeq == Str("ABCDEFGHIJKLMNOPQRSTUVWXYZ")

DigitSeq == Str("0123456789")

Range(f) == { f[x] : x \in DOMAIN f }

LowerAZ == Range(LowerSeq)
UpperAZ == Range(UpperSeq)
Digits == Range(DigitSeq)
Alpha == LowerAZ \cup UpperAZ

\* \w of a JavaScript regular expression
WordChars == Alpha \cup Digits \cup {"_"}

\* \s of a JavaScript regular expression (the members the model uses)
WS == {" ", "tab", "nl"}

\* combining diacritical marks U+0300..U+036F (the one the model uses)
CombiningMarks == {"comb_acute"}

IndexIn(seq, c) == CHOOSE k \in DOMAIN seq : seq[k] = c

\* the value of a decimal digit character
DigitVal(c) == IndexIn(DigitSeq, c) - 1

\* String.prototype.toLowerCase, one character
LowerChar(c) ==
  IF c \in UpperAZ THEN LowerSeq[IndexIn(UpperSeq, c)]
  ELSE IF c = "E_acute" THEN "e_acute"
  ELSE c

UpperChar(c) ==
  IF c \in LowerAZ THEN UpperSeq[IndexIn(LowerSeq, c)]
  ELSE IF c = "e_acute" THEN "E_acute"
  ELSE c

\* String.prototype.normalize("NFKD"), one character: a precomposed letter
\* decomposes into its base letter and a combining mark
NFKDChar(c) ==
  IF c = "e_acute" THEN <<"e", "comb_acute">>
  ELSE IF c = "E_acute" THEN <<"E", "comb_acute">>
  ELSE <<c>>

(***************************************************************************)
(* Strings                                                                  *)
(***************************************************************************)

RECURSIVE normalizeNFKD(_)

toLowerCase(s) == [k \in DOMAIN s |-> LowerChar(s[k])]

toUpperCase(s) == [k \in DOMAIN s |-> UpperChar(s[k])]

\* the decomposition of every character, concatenated
normalizeNFKD(s) ==
  IF s = <<>> THEN <<>> ELSE NFKDChar(Head(s)) \o normalizeNFKD(Tail(s))

\* s.slice(from) and s.slice(0, to) with 0-based JavaScript indices
SliceFrom(s, from) == SubSeq(s, from + 1, Len(s))
SliceTo(s, to) == SubSeq(s, 1, to)

RECURSIVE TrimLeft(_)
TrimLeft(s) ==
  IF s # <<>> /\ Head(s) \in WS THEN TrimLeft(Tail(s)) ELSE s

RECURSIVE TrimRight(_)
TrimRight(s) ==
  IF s # <<>> /\ s[Len(s)] \in WS THEN TrimRight(SubSeq(s, 1, Len(s) - 1)) ELSE s

\* String.prototype.trim
Trim(s) == TrimRight(TrimLeft(s))

\* s.includes(w): w occurs in s as a contiguous substring
Includes(s, w) ==
  \E i \in 0..(Len(s) - Len(w)) : SubSeq(s, i + 1, i + Len(w)) = w

\* the 0-based index of the first occurrence of w in s, -1 when absent
IndexOf(s, w) ==
  IF Includes(s, w)
  THEN CHOOSE i \in 0..(Len(s) - Len(w)) :
         /\ SubSeq(s, i + 1, i + Len(w)) = w
         /\ \A j \in 0..(i - 1) : SubSeq(s, j + 1, j + Len(w)) # w
  ELSE -1

\* s.split(sep)[0]
SplitHead(s, sep) == IF Includes(s, sep) THEN SliceTo(s, IndexOf(s, sep)) ELSE s

RECURSIVE SplitOn(_, _)
\* s.split(" "): the pieces between single separator characters
SplitOn(s, c) ==
  IF c \in Range(s)
  THEN LET i == IndexOf(s, <<c>>)
       IN <<SliceTo(s, i)>> \o SplitOn(SliceFrom(s, i + 1), c)
  ELSE <<s>>

\* arr.filter(Boolean) on a list of strings: the empty strings are dropped
FilterBoolean(arr) == SelectSeq(arr, LAMBDA x : x # <<>>)

RECURSIVE JoinWith(_, _)
\* arr.join(sep)
JoinWith(arr, sep) ==
  IF arr = <<>> THEN <<>>
  ELSE IF Len(arr) = 1 THEN arr[1]
  ELSE arr[1] \o sep \o JoinWith(Tail(arr), sep)

\* lexicographic order of strings of digits and ":" (the store's text order
\* on HH:mm and the order of Date values written as <<day>>)
CharRank(c) == IF c \in Digits THEN DigitVal(c) ELSE 10

RECURSIVE LexLess(_, _)
LexLess(a, b) ==
  IF b = <<>> THEN FALSE
  ELSE IF a = <<>> THEN TRUE
  ELSE IF CharRank(Head(a)) # CharRank(Head(b)) THEN CharRank(Head(a)) < CharRank(Head(b))
  ELSE LexLess(Tail(a), Tail(b))

(***************************************************************************)
(* Regular expressions                                                      *)
(***************************************************************************)

\* terms
RxSet(S) == [t |-> "set", s |-> S]
RxNot(S) == [t |-> "nset", s |-> S]
RxSeq(rs) == [t |-> "seq", rs |-> rs]
RxAlt(rs) == [t |-> "alt", rs |-> rs]
\* r{min,max}, greedy; max = -1 is unbounded
RxRep(r, min, max) == [t |-> "rep", r |-> r, min |-> min, max |-> max]
RxOpt(r) == RxRep(r, 0, 1)
RxStar(r) == RxRep(r, 0, -1)
RxPlus(r) == RxRep(r, 1, -1)
RxWB == [t |-> "wb"]
RxBOL == [t |-> "bol"]
RxEOL == [t |-> "eol"]

RxDigit == RxSet(Digits)
RxSpace == RxSet(WS)
\* a literal, case-sensitive and under the i flag
RxLit(str) == RxSeq([k \in DOMAIN str |-> RxSet({str[k]})])
RxLitI(str) == RxSeq([k \in DOMAIN str |-> RxSet({LowerChar(str[k]), UpperChar(str[k])})])
\* (w1|w2|...) under the i flag
RxWordsI(ws) == RxAlt([k \in DOMAIN ws |-> RxLitI(ws[k])])

\* an empty iteration ends a repetition: the position must have moved
RxMoved(from) == [t |-> "moved", from |-> from]

\* a term no character matches
RxFail == RxSet({})

RECURSIVE RxRun(_, _, _)
RECURSIVE RxFirst(_, _, _, _)
\* A backtracking matcher: the terms of todo matched one after the other in
\* s from position i (1-based index of the next unread character). The value
\* is the end position of the first match in the order JavaScript tries the
\* alternatives (the left branch first, the longer repetition first), 0 when
\* there is no match.
RxRun(todo, s, i) ==
  IF todo = <<>> THEN i
  ELSE
    CASE Head(todo).t = "set" ->
           IF i <= Len(s) /\ s[i] \in Head(todo).s THEN RxRun(Tail(todo), s, i + 1) ELSE 0
      [] Head(todo).t = "nset" ->
           IF i <= Len(s) /\ s[i] \notin Head(todo).s THEN RxRun(Tail(todo), s, i + 1) ELSE 0
      [] Head(todo).t = "wb" ->
           IF (i > 1 /\ s[i - 1] \in WordChars) # (i <= Len(s) /\ s[i] \in WordChars)
           THEN RxRun(Tail(todo), s, i) ELSE 0
      [] Head(todo).t = "bol" -> IF i = 1 THEN RxRun(Tail(todo), s, i) ELSE 0
      [] Head(todo).t = "eol" -> IF i = Len(s) + 1 THEN RxRun(Tail(todo), s, i) ELSE 0
      [] Head(todo).t = "moved" -> IF i > Head(todo).from THEN RxRun(Tail(todo), s, i) ELSE 0
      [] Head(todo).t = "seq" -> RxRun(Head(todo).rs \o Tail(todo), s, i)
      [] Head(todo).t = "alt" ->
           IF Head(todo).rs = <<>> THEN 0
           ELSE RxFirst(RxRun(<<Head(Head(todo).rs)>> \o Tail(todo), s, i),
                        <<RxAlt(Tail(Head(todo).rs))>> \o Tail(todo), s, i)
      [] Head(todo).t = "rep" ->
           RxFirst(IF Head(todo).max = 0 THEN 0
                   ELSE RxRun(<<Head(todo).r, RxMoved(i),
                                RxRep(Head(todo).r,
                                      IF Head(todo).min > 0 THEN Head(todo).min - 1 ELSE 0,
                                      IF Head(todo).max = -1 THEN -1 ELSE Head(todo).max - 1)>>
                                \o Tail(todo), s, i),
                   IF Head(todo).min > 0 THEN <<RxFail>> ELSE Tail(todo), s, i)

\* the match already found, or else the match of the next thing to try
RxFirst(found, todo, s, i) == IF found # 0 THEN found ELSE RxRun(todo, s, i)

\* the end position of the first match of r in s at position i, 0 if none
RxMatch(r, s, i) == RxRun(<<r>>, s, i)

RECURSIVE RxSearchFrom(_, _, _)
RECURSIVE RxFound(_, _, _, _)
\* re.exec(s) from position i: <<start, end>> of the leftmost match, <<>> if none
RxSearchFrom(r, s, i) ==
  IF i > Len(s) + 1 THEN <<>>
  ELSE RxFound(i, RxMatch(r, s, i), r, s)

\* the match found at i, or else the search from the next position
RxFound(i, end, r, s) == IF end # 0 THEN <<i, end>> ELSE RxSearchFrom(r, s, i + 1)

RxExec(r, s) == RxSearchFrom(r, s, 1)

\* re.test(s)
RxTest(r, s) == RxExec(r, s) # <<>>

\* s with the match m (<<start, end>>, or <<>>) replaced by rep
RxSpliceOnce(s, rep, m) ==
  IF m = <<>> THEN s
  ELSE SubSeq(s, 1, m[1] - 1) \o rep \o SubSeq(s, m[2], Len(s))

\* s.replace(re, rep) without the g flag
RxReplaceFirst(r, s, rep) == RxSpliceOnce(s, rep, RxExec(r, s))

RECURSIVE RxReplaceFrom(_, _, _, _)
RECURSIVE RxSplice(_, _, _, _, _)
\* s from position i on, with every match of r replaced by rep
RxReplaceFrom(r, s, rep, i) == RxSplice(r, s, rep, i, RxSearchFrom(r, s, i))

\* the text from i up to the match m, the replacement, and the rest replaced
RxSplice(r, s, rep, i, m) ==
  IF m = <<>> THEN SubSeq(s, i, Len(s))
  ELSE IF m[2] > m[1]
       THEN SubSeq(s, i, m[1] - 1) \o rep \o RxReplaceFrom(r, s, rep, m[2])
       ELSE \* an empty match: the replacement, then one character is copied
            SubSeq(s, i, m[1] - 1) \o rep
              \o (IF m[1] <= Len(s)
                  THEN <<s[m[1]]>> \o RxReplaceFrom(r, s, rep, m[1] + 1)
                  ELSE <<>>)

\* s.replace(re, rep) with the g flag
RxReplaceAll(r, s, rep) == RxReplaceFrom(r, s, rep, 1)

\* s.replace(/\s+/g, " ")
CollapseWS(s) == RxReplaceAll(RxPlus(RxSpace), s, <<" ">>)

(***************************************************************************)
(* Text Normalizer                                                          *)
(***************************************************************************)

\* if (!s): null, undefined and the empty string are falsy
Falsy(s) == s = NULL \/ s = <<>>

\* s || "" on a string-or-null value
OrEmpty(s) == IF Falsy(s) THEN <<>> ELSE s

\* s || null on a string-or-null value
OrNull(s) == IF Falsy(s) THEN NULL ELSE s

normText(s) ==
  IF Falsy(s) THEN NULL
  ELSE LET lower == toLowerCase(s)
           nfkd == normalizeNFKD(lower)
           nomarks == SelectSeq(nfkd, LAMBDA c : c \notin CombiningMarks)
           alnum == [k \in DOMAIN nomarks |->
                       IF nomarks[k] \in LowerAZ \cup Digits \cup WS
                       THEN nomarks[k] ELSE " "]
       IN Trim(CollapseWS(alnum))

(***************************************************************************)
(* City Resolver                                                            *)
(***************************************************************************)

\* /^\s*\d{1,2}:\d{2}\s*(AM|PM)\s+/i
RE_LEADING_TIME_12 ==
  RxSeq(<<RxBOL, RxStar(RxSpace), RxRep(RxDigit, 1, 2), RxLit(Str(":")), RxRep(RxDigit, 2, 2),
          RxStar(RxSpace), RxWordsI(<<Str("am"), Str("pm")>>), RxPlus(RxSpace)>>)

\* /^\s*\d{1,2}:\d{2}\s+/
RE_LEADING_TIME_24 ==
  RxSeq(<<RxBOL, RxStar(RxSpace), RxRep(RxDigit, 1, 2), RxLit(Str(":")), RxRep(RxDigit, 2, 2),
          RxPlus(RxSpace)>>)

stripLeadingTime(s) ==
  LET t0 == Trim(OrEmpty(s))
      t1 == RxReplaceFirst(RE_LEADING_TIME_12, t0, <<>>)
      t2 == RxReplaceFirst(RE_LEADING_TIME_24, t1, <<>>)
  IN Trim(t2)

\* /\b(w1|w2|...)\b/i
RxWholeWordI(ws) == RxSeq(<<RxWB, RxWordsI(ws), RxWB>>)

\* /\btickets\b/i
RE_TICKETS == RxWholeWordI(<<Str("tickets")>>)

\* /\b\d{4}-\d{2}-\d{2}\b/g
RE_ISO_DATE ==
  RxSeq(<<RxWB, RxRep(RxDigit, 4, 4), RxLit(Str("-")), RxRep(RxDigit, 2, 2),
          RxLit(Str("-")), RxRep(RxDigit, 2, 2), RxWB>>)

\* /\b(mon|tue|wed|thu|fri|sat|sun)\b/gi
RE_WEEKDAY ==
  RxWholeWordI(<<Str("mon"), Str("tue"), Str("wed"), Str("thu"), Str("fri"), Str("sat"), Str("sun")>>)

MonthWords ==
  <<Str("jan"), Str("feb"), Str("mar"), Str("apr"), Str("may"), Str("jun"), Str("jul"),
    Str("aug"), Str("sep"), Str("sept"), Str("oct"), Str("nov"), Str("dec")>>

\* /\b(jan|feb|mar|apr|may|jun|jul|aug|sep|sept|oct|nov|dec)\b/gi
RE_MONTH == RxWholeWordI(MonthWords)

\* /\b\d{1,2}(st|nd|rd|th)?\b/gi
RE_DAY_NUMBER ==
  RxSeq(<<RxWB, RxRep(RxDigit, 1, 2),
          RxOpt(RxWordsI(<<Str("st"), Str("nd"), Str("rd"), Str("th")>>)), RxWB>>)

\* /\b(presents?|tour|part|show|stadium|arena|the|big|ass|tickets?)\b/gi
RE_CITY_NOISE ==
  RxSeq(<<RxWB,
          RxAlt(<<RxSeq(<<RxLitI(Str("present")), RxOpt(RxLitI(Str("s")))>>),
                  RxLitI(Str("tour")), RxLitI(Str("part")), RxLitI(Str("show")),
                  RxLitI(Str("stadium")), RxLitI(Str("arena")), RxLitI(Str("the")),
                  RxLitI(Str("big")), RxLitI(Str("ass")),
                  RxSeq(<<RxLitI(Str("ticket")), RxOpt(RxLitI(Str("s")))>>)>>),
          RxWB>>)

\* /^[a-zA-Z\s]+$/
RE_ALPHA_ONLY == RxSeq(<<RxBOL, RxPlus(RxSet(Alpha \cup WS)), RxEOL>>)

\* arr.slice(-n)
LastN(arr, n) == SubSeq(arr, IF Len(arr) > n THEN Len(arr) - n + 1 ELSE 1, Len(arr))

\* lines 266-269: what follows the word Tickets, when there is one
AfterTickets(t, mTickets) ==
  IF mTickets # <<>> THEN Trim(SubSeq(t, mTickets[2], Len(t))) ELSE t

\* lines 272-283: dates, weekdays, months, day numbers and noise words out
CityNoiseRemoved(t) ==
  Trim(CollapseWS(
    RxReplaceAll(RE_CITY_NOISE,
      RxReplaceAll(RE_DAY_NUMBER,
        RxReplaceAll(RE_MONTH,
          RxReplaceAll(RE_WEEKDAY,
            RxReplaceAll(RE_ISO_DATE, AfterTickets(t, RxExec(RE_TICKETS, t)), <<" ">>),
            <<" ">>),
          <<" ">>),
        <<" ">>),
      <<" ">>)))

\* lines 285-294: the text if it has at most 3 words, else its last 2 or 3
CityWords(t, parts) ==
  LET last2 == JoinWith(LastN(parts, 2), <<" ">>)
      last3 == JoinWith(LastN(parts, 3), <<" ">>)
  IN IF Len(parts) = 0 THEN NULL
     ELSE IF Len(parts) <= 3 THEN t
     ELSE IF RxTest(RE_ALPHA_ONLY, last2) THEN last2
     ELSE last3

CityCandidateOf(t) == CityWords(t, FilterBoolean(SplitOn(t, " ")))

cityCandidateFromMessyString(s) ==
  IF Trim(OrEmpty(s)) = <<>> THEN NULL
  ELSE CityCandidateOf(CityNoiseRemoved(stripLeadingTime(Trim(OrEmpty(s)))))

\* CITY_ALIASES.get(base): the alias list of a normalized city, <<>> when
\* the map has no entry
CITY_ALIASES(base) ==
  IF base = Str("west valley city") THEN <<Str("salt lake city")>> ELSE <<>>

\* Set.prototype.add on an insertion-ordered set
SetAdd(out, x) == IF x \in Range(out) THEN out ELSE Append(out, x)

RECURSIVE AddAliases(_, _)
AddAliases(out, ali) ==
  IF ali = <<>> THEN out
  ELSE LET nn == normText(Head(ali))
       IN AddAliases(IF Falsy(nn) THEN out ELSE SetAdd(out, nn), Tail(ali))

HeadVariants_FtOnly(out, parts) ==
  IF parts[1] = Str("ft") THEN SetAdd(out, Str("fort ") \o JoinWith(Tail(parts), <<" ">>))
  ELSE out

\* the ft <-> fort, st <-> saint substitution on the first token
HeadVariants(out, parts) ==
  LET head == parts[1]
      tail == JoinWith(Tail(parts), <<" ">>)
      o1 == IF head = Str("ft") THEN SetAdd(out, Str("fort ") \o tail) ELSE out
      o2 == IF head = Str("fort") THEN SetAdd(o1, Str("ft ") \o tail) ELSE o1
      o3 == IF head = Str("st") THEN SetAdd(o2, Str("saint ") \o tail) ELSE o2
      o4 == IF head = Str("saint") THEN SetAdd(o3, Str("st ") \o tail) ELSE o3
  IN o4

\* lines 324-335 on the tokens of base
VariantsOfParts(out, parts) == IF Len(parts) >= 2 THEN HeadVariants(out, parts) ELSE out

VariantsOfBase_KeepsEmpty(base) ==
  IF base = NULL THEN <<>>
  ELSE VariantsOfParts(AddAliases(<<base>>, CITY_ALIASES(base)),
                       FilterBoolean(SplitOn(base, " ")))

\* lines 310-337 on the normalized city
VariantsOfBase(base) ==
  IF Falsy(base) THEN <<>>
  ELSE VariantsOfParts(AddAliases(<<base>>, CITY_ALIASES(base)),
                       FilterBoolean(SplitOn(base, " ")))

cityVariants(rawCity) ==
  VariantsOfBase(normText(OrEmpty(cityCandidateFromMessyString(OrEmpty(rawCity)))))

(***************************************************************************)
(* State Resolver                                                           *)
(***************************************************************************)

\* Map.prototype.get: undefined when the key is absent
MapGet(m, k) == IF k \in DOMAIN m THEN m[k] ELSE NULL

\* Map.prototype.set
MapSet(m, k, v) == [x \in DOMAIN m \cup {k} |-> IF x = k THEN v ELSE m[x]]

EmptyMap == [x \in {} |-> NULL]

RECURSIVE LoadNames(_, _)
\* the stateNameToAbbr writes of loadStateMaps, record by record
LoadNames(m, records) ==
  IF records = <<>> THEN m
  ELSE LET r == Head(records)
           nameRaw == Trim(OrEmpty(r.name))
           abbrRaw == Trim(OrEmpty(r.abbr))
           nameKey == normText(nameRaw)
       IN LoadNames(IF nameRaw = <<>> \/ abbrRaw = <<>> \/ Falsy(nameKey) THEN m
                    ELSE MapSet(m, nameKey, toUpperCase(abbrRaw)),
                    Tail(records))

RECURSIVE LoadAbbrs(_, _)
\* the stateAbbrToName writes of loadStateMaps, record by record
LoadAbbrs(m, records) ==
  IF records = <<>> THEN m
  ELSE LET r == Head(records)
           nameRaw == Trim(OrEmpty(r.name))
           abbrRaw == Trim(OrEmpty(r.abbr))
           abbrKey == toLowerCase(Trim(abbrRaw))
       IN LoadAbbrs(IF nameRaw = <<>> \/ abbrRaw = <<>> \/ abbrKey = <<>> THEN m
                    ELSE MapSet(m, abbrKey, nameRaw),
                    Tail(records))

\* the two maps after loadStateMaps() has run on the records of the CSV;
\* a missing or unreadable CSV leaves both maps empty (csv = NULL)
loadStateMaps(csv) ==
  IF csv = NULL THEN [nameToAbbr |-> EmptyMap, abbrToName |-> EmptyMap]
  ELSE [nameToAbbr |-> LoadNames(EmptyMap, csv), abbrToName |-> LoadAbbrs(EmptyMap, csv)]

\* /^[A-Za-z]{2,3}$/
RE_STATE_ABBR == RxSeq(<<RxBOL, RxRep(RxSet(Alpha), 2, 3), RxEOL>>)

\* the null result of normalizeState
NoState == [isNull |-> TRUE, stateFull |-> NULL, stateAbbr |-> NULL, stateNorm |-> NULL]

normalizeState(inputState, maps) ==
  LET raw == Trim(OrEmpty(inputState))
      full == MapGet(maps.abbrToName, toLowerCase(raw))
      fullKey == normText(raw)
  IN IF raw = <<>> THEN NoState
     ELSE IF RxTest(RE_STATE_ABBR, raw)
          THEN IF ~Falsy(full)
               THEN [isNull |-> FALSE, stateFull |-> full, stateAbbr |-> toUpperCase(raw),
                     stateNorm |-> normText(full)]
               ELSE [isNull |-> FALSE, stateFull |-> NULL, stateAbbr |-> toUpperCase(raw),
                     stateNorm |-> NULL]
     ELSE IF Falsy(fullKey) THEN NoState
     ELSE [isNull |-> FALSE, stateFull |-> raw,
           stateAbbr |-> OrNull(MapGet(maps.nameToAbbr, fullKey)), stateNorm |-> fullKey]

(***************************************************************************)
(* Dates                                                                    *)
(***************************************************************************)

\* A Date at UTC midnight is <<d>>, d the number of days since 1970-01-01;
\* <<>> is null.
NoDate == <<>>

\* the day number of (y, m, d) in the proleptic Gregorian calendar, m in 1..12
DaysFromCivil(y, m, d) ==
  LET yy == IF m <= 2 THEN y - 1 ELSE y
      era == yy \div 400
      yoe == yy - era * 400
      mp == IF m > 2 THEN m - 3 ELSE m + 9
      doy == (153 * mp + 2) \div 5 + d - 1
      doe == yoe * 365 + yoe \div 4 - yoe \div 100 + doy
  IN era * 146097 + doe - 719468

\* Date.UTC(year, monthIndex, day, 0, 0, 0) in days: a year 0..99 is 1900 +
\* year, a month index outside 0..11 carries into the year, and day counts
\* on from the first of the month
DateUTC(year, monthIndex, day) ==
  LET y0 == IF year >= 0 /\ year <= 99 THEN 1900 + year ELSE year
      y == y0 + monthIndex \div 12
      m == monthIndex % 12
  IN DaysFromCivil(y, m + 1, 1) + (day - 1)

RECURSIVE ToNumber(_)
\* unary plus on a string of decimal digits
ToNumber(s) ==
  IF s = <<>> THEN 0 ELSE 10 * ToNumber(SubSeq(s, 1, Len(s) - 1)) + DigitVal(s[Len(s)])

\* /^(\d{4})-(\d{2})-(\d{2})$/
RE_YMD ==
  RxSeq(<<RxBOL, RxRep(RxDigit, 4, 4), RxLit(Str("-")), RxRep(RxDigit, 2, 2),
          RxLit(Str("-")), RxRep(RxDigit, 2, 2), RxEOL>>)

parseDateDayFromYMD(ymd) ==
  LET s == OrEmpty(ymd)
  IN IF ~RxTest(RE_YMD, s) THEN NoDate
     ELSE <<DateUTC(ToNumber(SubSeq(s, 1, 4)), ToNumber(SubSeq(s, 6, 7)) - 1,
                    ToNumber(SubSeq(s, 9, 10)))>>

\* the clock of the process: the current UTC day
NowDay == DaysFromCivil(2026, 11, 3)

todayUtcMidnight == <<NowDay>>

\* a < b on two Dates
DateBefore(a, b) == a[1] < b[1]

(***************************************************************************)
(* Fallback Link Synthesizer                                                *)
(***************************************************************************)

\* /[^a-z0-9]+/g
RE_NON_SLUG == RxPlus(RxNot(LowerAZ \cup Digits))

\* /-+/g and /^-|-$/g
RE_HYPHENS == RxPlus(RxSet({"-"}))
RE_EDGE_HYPHEN ==
  RxAlt(<<RxSeq(<<RxBOL, RxSet({"-"})>>), RxSeq(<<RxSet({"-"}), RxEOL>>)>>)

slugifyPerformerName(name) ==
  LET s0 == Trim(name)
      s1 == SelectSeq(normalizeNFKD(s0), LAMBDA c : c \notin CombiningMarks)
      s2 == RxReplaceAll(RxSet({"&"}), s1, Str(" and "))
      s3 == SelectSeq(s2, LAMBDA c : c # "'")
      s4 == toLowerCase(s3)
      s5 == RxReplaceAll(RE_NON_SLUG, s4, <<" ">>)
      s6 == RxReplaceAll(RxPlus(RxSpace), Trim(s5), <<"-">>)
      s7 == RxReplaceAll(RE_EDGE_HYPHEN, RxReplaceAll(RE_HYPHENS, s6, <<"-">>), <<>>)
  IN IF Falsy(name) THEN NULL
     ELSE IF s0 = <<>> THEN NULL
     ELSE OrNull(s7)

\* links is the record of the four browse URLs, NoLinks when the slug is empty
NoLinks == [isNull |-> TRUE]

buildPerformerLinks(performerName) ==
  LET slug == slugifyPerformerName(performerName)
  IN IF Falsy(slug) THEN [slug |-> NULL, links |-> NoLinks]
     ELSE [slug |-> slug,
           links |-> [isNull |-> FALSE,
                      geturtix |-> Str("https://geturtix.com/performers/") \o slug,
                      tn |-> Str("https://www.ticketnetwork.com/e/performers/") \o slug
                               \o Str("-tickets"),
                      tl |-> Str("https://www.ticketliquidator.com/performers/") \o slug
                               \o Str("-tickets"),
                      sbs |-> Str("https://www.superboleteria.com/performers/") \o slug
                               \o Str("-boletos")]]

(***************************************************************************)
(* Performer Query Builder                                                  *)
(***************************************************************************)

\* /\b(tickets?|tour|events?)\b/gi
RE_TITLE_NOISE ==
  RxSeq(<<RxWB,
          RxAlt(<<RxSeq(<<RxLitI(Str("ticket")), RxOpt(RxLitI(Str("s")))>>),
                  RxLitI(Str("tour")),
                  RxSeq(<<RxLitI(Str("event")), RxOpt(RxLitI(Str("s")))>>)>>),
          RxWB>>)

extractPerformerFromTitle(rawTitle) ==
  LET t0 == Trim(OrEmpty(rawTitle))
      t1 == SplitHead(t0, Str(" | "))
      t2 == SplitHead(t1, Str(" - "))
      t3 == Trim(RxReplaceAll(RE_TITLE_NOISE, t2, <<>>))
      t == Trim(CollapseWS(t3))
  IN IF t0 = <<>> THEN NULL
     ELSE IF Len(t) < 2 THEN NULL
     ELSE t

\* /^\s*the\s+/i
RE_LEADING_THE == RxSeq(<<RxBOL, RxStar(RxSpace), RxLitI(Str("the")), RxPlus(RxSpace)>>)

\* MONTH_TOKEN_RE
MONTH_TOKEN_RE == RxWholeWordI(MonthWords)

\* /\b\d+\s*day\s*package\b/gi
RE_N_DAY_PACKAGE ==
  RxSeq(<<RxWB, RxPlus(RxDigit), RxStar(RxSpace), RxLitI(Str("day")), RxStar(RxSpace),
          RxLitI(Str("package")), RxWB>>)

\* /\bday\s*package\b/gi
RE_DAY_PACKAGE ==
  RxSeq(<<RxWB, RxLitI(Str("day")), RxStar(RxSpace), RxLitI(Str("package")), RxWB>>)

\* /\bpackage\b/gi
RE_PACKAGE == RxWholeWordI(<<Str("package")>>)

\* (sess(ion)?)
RxSess == RxSeq(<<RxLitI(Str("sess")), RxOpt(RxLitI(Str("ion")))>>)

\* /\b(sess(ion)?)\b[^,]*$/gi
RE_SESS_TAIL == RxSeq(<<RxWB, RxSess, RxWB, RxStar(RxNot({","})), RxEOL>>)

\* /\b(sess(ion)?)\s*\d+(-\d+)?\b/gi
RE_SESS_NUM ==
  RxSeq(<<RxWB, RxSess, RxStar(RxSpace), RxPlus(RxDigit),
          RxOpt(RxSeq(<<RxLit(Str("-")), RxPlus(RxDigit)>>)), RxWB>>)

cleanPerformerPicked(s) ==
  LET t0 == Trim(OrEmpty(s))
      t1 == RxReplaceFirst(RE_LEADING_THE, t0, <<>>)
      mMonth == RxExec(MONTH_TOKEN_RE, t1)
      t2 == IF mMonth # <<>> THEN Trim(SubSeq(t1, 1, mMonth[1] - 1)) ELSE t1
      t3 == RxReplaceAll(RE_N_DAY_PACKAGE, t2, <<" ">>)
      t4 == RxReplaceAll(RE_DAY_PACKAGE, t3, <<" ">>)
      t5 == RxReplaceAll(RE_PACKAGE, t4, <<" ">>)
      t6 == RxReplaceAll(RE_SESS_TAIL, t5, <<" ">>)
      t7 == RxReplaceAll(RE_SESS_NUM, t6, <<" ">>)
      t == Trim(CollapseWS(t7))
  IN IF t0 = <<>> THEN NULL ELSE OrNull(t)

STOP_WORDS ==
  { Str("tickets"), Str("ticket"), Str("tour"), Str("events"), Str("event"), Str("show"),
    Str("shows"), Str("live"), Str("official"), Str("presents"), Str("present"),
    Str("featuring"), Str("feat"), Str("with"), Str("and"), Str("the"), Str("a"), Str("an"),
    Str("parking"), Str("day"), Str("package"), Str("sess"), Str("session") }

isStopWord(w) == toLowerCase(OrEmpty(w)) \in STOP_WORDS

\* /^((19|20)\d{2})$/
RE_YEAR ==
  RxSeq(<<RxBOL, RxAlt(<<RxLit(Str("19")), RxLit(Str("20"))>>), RxRep(RxDigit, 2, 2), RxEOL>>)

isYearToken(w) == RxTest(RE_YEAR, Trim(OrEmpty(w)))

\* words.map(trim).filter(Boolean)
TrimmedWords(words) == FilterBoolean([k \in DOMAIN words |-> Trim(words[k])])

filterPerformerWords(words) ==
  SelectSeq(TrimmedWords(words), LAMBDA w : ~isStopWord(w) /\ ~isYearToken(w))

PushVariant_WithoutSeen(variants, arr) ==
  IF arr = <<>> THEN variants
  ELSE Append(variants, arr)

\* push(arr) of buildWordVariants: the list of variants is its own seen set,
\* the key of a variant being its words joined by a space
PushVariant(variants, arr) ==
  IF arr = <<>> THEN variants
  ELSE IF \E k \in DOMAIN variants : JoinWith(variants[k], <<" ">>) = JoinWith(arr, <<" ">>)
       THEN variants
  ELSE Append(variants, arr)

ConsiderVariant_ThreeLettersUpcoming(variants, v, mode) ==
  LET one == toLowerCase(v[1])
  IN IF Len(v) = 1
     THEN IF isStopWord(one) \/ isYearToken(one) THEN variants
          ELSE IF Len(one) < 3
               THEN (IF mode = "exact" THEN PushVariant(variants, v) ELSE variants)
          ELSE PushVariant(variants, v)
     ELSE PushVariant(variants, v)

\* the body of the two loops of buildWordVariants for one candidate v
ConsiderVariant(variants, v, mode) ==
  LET one == toLowerCase(v[1])
  IN IF Len(v) = 1
     THEN IF isStopWord(one) \/ isYearToken(one) THEN variants
          ELSE IF Len(one) < 3
               THEN (IF mode = "exact" THEN PushVariant(variants, v) ELSE variants)
          ELSE IF mode = "upcoming"
               THEN (IF Len(one) >= 4 THEN PushVariant(variants, v) ELSE variants)
          ELSE PushVariant(variants, v)
     ELSE PushVariant(variants, v)

RECURSIVE PrefixLoop(_, _, _, _)
\* for (let k = w.length - 1; k >= 1; k--) over w.slice(0, k)
PrefixLoop(variants, w, k, mode) ==
  IF k < 1 THEN variants
  ELSE PrefixLoop(ConsiderVariant(variants, SubSeq(w, 1, k), mode), w, k - 1, mode)

RECURSIVE SuffixLoop(_, _, _, _)
\* for (let i = 1; i <= w.length - 1; i++) over w.slice(i)
SuffixLoop(variants, w, i, mode) ==
  IF i > Len(w) - 1 THEN variants
  ELSE SuffixLoop(ConsiderVariant(variants, SubSeq(w, i + 1, Len(w)), mode), w, i + 1, mode)

buildWordVariants_WithoutFull(words, mode) ==
  LET w == TrimmedWords(words)
  IN IF w = <<>> THEN <<>>
     ELSE SuffixLoop(PrefixLoop(<<>>, w, Len(w) - 1, mode), w, 1, mode)

buildWordVariants(words, mode) ==
  LET w == TrimmedWords(words)
      full == PushVariant(<<>>, w)
      prefixes == PrefixLoop(full, w, Len(w) - 1, mode)
  IN IF w = <<>> THEN <<>>
     ELSE SuffixLoop(prefixes, w, 1, mode)

buildPerformerWordClauses(words) ==
  [k \in DOMAIN words |-> [performerNorm |-> [contains |-> words[k], mode |-> "insensitive"]]]

(***************************************************************************)
(* Offer Presenter                                                          *)
(***************************************************************************)

\* A nullable number or boolean is <<v>>, or <<>> for null.
NoVal == <<>>

RECURSIVE NatToStr(_)
\* the decimal digits of a natural number
NatToStr(n) ==
  IF n < 10 THEN <<DigitSeq[n + 1]>> ELSE NatToStr(n \div 10) \o <<DigitSeq[(n % 10) + 1]>>

\* (cents / 100).toFixed(2) for an integer number of cents
ToFixed2(cents) ==
  LET a == IF cents < 0 THEN 0 - cents ELSE cents
      frac == NatToStr(a % 100)
  IN (IF cents < 0 THEN Str("-") ELSE <<>>)
       \o NatToStr(a \div 100) \o Str(".")
       \o (IF Len(frac) = 1 THEN Str("0") \o frac ELSE frac)

money(cents) == IF cents = NoVal THEN NULL ELSE ToFixed2(cents[1])

(* Numbers are IEEE-754 doubles.  A finite double that is not negative is   *)
(* [bits |-> b, exp |-> e]: the integer with the binary digits b (the most   *)
(* significant first, no leading zero, 53 of them at most) times 2^e.  Zero  *)
(* has no digits.                                                            *)

\* the last k binary digits of a natural number
LowBits(n, k) == [i \in 1..k |-> (n \div 2^(k - i)) % 2]

\* the binary digits of a natural number below 2^30
NatBits(n) == LowBits(n, CHOOSE k \in 0..30 : n < 2^k /\ (k = 0 \/ n >= 2^(k - 1)))

RECURSIVE BitsNat(_)
BitsNat(b) == IF b = <<>> THEN 0 ELSE 2 * BitsNat(SubSeq(b, 1, Len(b) - 1)) + b[Len(b)]

\* b without its leading zeros
StripZeros(b) ==
  IF \A k \in DOMAIN b : b[k] = 0 THEN <<>>
  ELSE SubSeq(b, CHOOSE k \in DOMAIN b : b[k] = 1 /\ \A j \in 1..(k - 1) : b[j] = 0, Len(b))

\* the digits of the successor
BitsInc(b) ==
  IF \A k \in DOMAIN b : b[k] = 1 THEN <<1>> \o [k \in DOMAIN b |-> 0]
  ELSE [k \in DOMAIN b |->
          IF \A j \in (k + 1)..Len(b) : b[j] = 1 THEN 1 - b[k] ELSE b[k]]

\* the 53 digits kept of b, with the exponent of the last one
Rounded(r, e) ==
  IF Len(r) = 54 THEN [bits |-> SubSeq(r, 1, 53), exp |-> e + 1] ELSE [bits |-> r, exp |-> e]

\* The double nearest to b * 2^e plus a remainder below 2^e that is not zero
\* when sticky holds; a tie goes to the even double.  A remainder only comes
\* with more than 53 digits.
RoundToDouble(b, e, sticky) ==
  IF Len(b) <= 53 THEN [bits |-> b, exp |-> e]
  ELSE IF b[54] = 1 /\ (sticky \/ b[53] = 1 \/ \E k \in 55..Len(b) : b[k] = 1)
  THEN Rounded(BitsInc(SubSeq(b, 1, 53)), e + Len(b) - 53)
  ELSE Rounded(SubSeq(b, 1, 53), e + Len(b) - 53)

RECURSIVE FracBits(_, _, _)
\* the first 16 * k binary digits of n / d after the point, for n < d < 2^15
FracBits(n, d, k) ==
  IF k = 0 THEN <<>>
  ELSE LowBits((65536 * n) \div d, 16) \o FracBits((65536 * n) % d, d, k - 1)

RECURSIVE FracRem(_, _, _)
\* what is left of n / d after its first 16 * k binary digits
FracRem(n, d, k) == IF k = 0 \/ n = 0 THEN n ELSE FracRem((65536 * n) % d, d, k - 1)

\* n / d
FltDiv(n, d) ==
  RoundToDouble(StripZeros(NatBits(n \div d) \o FracBits(n % d, d, 4)), -64,
                FracRem(n % d, d, 4) # 0)

\* 1 - q, for 0 < q <= 1 with the digits b, w of them after the point: a
\* digit after the point is turned when a digit after it is 1 and kept
\* otherwise; the unit is 1 only when q is 0
OneMinusBits(b, w) ==
  [k \in 1..(w + 1) |->
     IF k = 1 THEN (IF \E j \in 2..(w + 1) : b[j] = 1 THEN b[1] ELSE 1 - b[1])
     ELSE IF \E j \in (k + 1)..(w + 1) : b[j] = 1 THEN 1 - b[k] ELSE b[k]]

\* 1 - q, for q <= 1
FltOneMinus(q) ==
  IF q.bits = <<>> THEN [bits |-> <<1>>, exp |-> 0]
  ELSE RoundToDouble(
         StripZeros(OneMinusBits([k \in 1..(1 - q.exp - Len(q.bits)) |-> 0] \o q.bits,
                                 0 - q.exp)),
         q.exp, FALSE)

RECURSIVE BitsMulCarry(_, _, _, _)
\* the first 3 * k digits of b, times m < 2^28, plus a carry
BitsMulCarry(b, m, k, carry) ==
  IF k = 0 THEN NatBits(carry)
  ELSE BitsMulCarry(b, m, k - 1,
                    ((4 * b[3 * k - 2] + 2 * b[3 * k - 1] + b[3 * k]) * m + carry) \div 8)
       \o LowBits(((4 * b[3 * k - 2] + 2 * b[3 * k - 1] + b[3 * k]) * m + carry) % 8, 3)

\* b with zeros before it, to a number of digits that 3 divides
PadTo3(b) == [k \in 1..((3 - (Len(b) % 3)) % 3) |-> 0] \o b

\* n * r, for a natural number n
FltTimesInt(n, r) ==
  RoundToDouble(StripZeros(BitsMulCarry(PadTo3(r.bits), n, Len(PadTo3(r.bits)) \div 3, 0)),
                r.exp, FALSE)

\* the integer digits of x, which has n of them, and the half after them
RoundedAt(x, n) ==
  IF n < 0 THEN 0
  ELSE BitsNat(SubSeq(x.bits, 1, n)) + x.bits[n + 1]

\* Math.round(x): the nearest integer, a half rounds up
MathRound(x) ==
  IF x.bits = <<>> THEN 0
  ELSE IF x.exp >= 0 THEN BitsNat(x.bits \o [k \in 1..x.exp |-> 0])
  ELSE RoundedAt(x, Len(x.bits) + x.exp)

estAfterPromo_IgnoresPromo(priceMinCents, promoPercent) == priceMinCents

\* Math.round(priceMinCents * (1 - p / 100))
estAfterPromo(priceMinCents, promoPercent) ==
  IF priceMinCents = NoVal THEN NoVal
  ELSE <<MathRound(FltTimesInt(priceMinCents[1],
                               FltOneMinus(FltDiv(IF promoPercent = NoVal THEN 0
                                                  ELSE promoPercent[1], 100))))>>

\* Number(s) of a decimal string, in hundredths: "80.00" is 8000 and
\* "999999" is 99999900
NumberOf(s) ==
  LET neg == s # <<>> /\ Head(s) = "-"
      body == IF neg THEN Tail(s) ELSE s
      dot == IndexOf(body, Str("."))
      whole == IF dot = -1 THEN body ELSE SliceTo(body, dot)
      frac == IF dot = -1 THEN Str("00") ELSE SliceFrom(body, dot + 1)
      v == 100 * ToNumber(whole) + ToNumber(frac)
  IN IF neg THEN 0 - v ELSE v

\* a ?? b
Coalesce(a, b) == IF a = NULL THEN b ELSE a

\* the comparator of offers.sort in shapeEvent
OfferCompare(a, b) ==
  LET ax == Coalesce(a.est_after_promo, Coalesce(a.base_price_min, Str("999999")))
      bx == Coalesce(b.est_after_promo, Coalesce(b.base_price_min, Str("999999")))
  IN NumberOf(ax) - NumberOf(bx)

RECURSIVE InsertOffer(_, _)
\* x placed after every offer it does not precede under the comparator
InsertOffer(sorted, x) ==
  IF sorted = <<>> THEN <<x>>
  ELSE IF OfferCompare(x, Head(sorted)) < 0 THEN <<x>> \o sorted
  ELSE <<Head(sorted)>> \o InsertOffer(Tail(sorted), x)

RECURSIVE SortOffersFrom(_, _)
SortOffersFrom(sorted, rest) ==
  IF rest = <<>> THEN sorted
  ELSE SortOffersFrom(InsertOffer(sorted, Head(rest)), Tail(rest))

\* offers.sort(cmp): a stable sort
SortOffers(offers) == SortOffersFrom(<<>>, offers)

ShapeOffer(o) ==
  [ source |-> o.source,
    url |-> o.url,
    tickets_yn |-> o.ticketsYn,
    base_price_min |-> money(o.priceMin),
    base_price_max |-> money(o.priceMax),
    promo_percent |-> o.promoPercent,
    est_after_promo |-> money(estAfterPromo(o.priceMin, o.promoPercent)) ]

\* hh:mm of a 24-hour time as h:mm AM/PM
toTime12(time24) ==
  LET m == RxTest(RxSeq(<<RxBOL, RxRep(RxDigit, 2, 2), RxLit(Str(":")), RxRep(RxDigit, 2, 2),
                          RxEOL>>), time24)
      hh24 == ToNumber(SubSeq(time24, 1, 2))
      ampm == IF hh24 >= 12 THEN Str("PM") ELSE Str("AM")
      hh == IF hh24 % 12 = 0 THEN 12 ELSE hh24 % 12
  IN IF Falsy(time24) THEN NULL
     ELSE IF ~m THEN NULL
     ELSE NatToStr(hh) \o Str(":") \o SubSeq(time24, 4, 5) \o Str(" ") \o ampm

\* the civil date <<y, m, d>> of a day number
CivilFromDays(days) ==
  LET z == days + 719468
      era == z \div 146097
      doe == z - era * 146097
      yoe == (doe - doe \div 1460 + doe \div 36524 - doe \div 146096) \div 365
      doy == doe - (365 * yoe + yoe \div 4 - yoe \div 100)
      mp == (5 * doy + 2) \div 153
      d == doy - (153 * mp + 2) \div 5 + 1
      m == IF mp < 10 THEN mp + 3 ELSE mp - 9
      y == yoe + era * 400 + (IF m <= 2 THEN 1 ELSE 0)
  IN <<y, m, d>>

\* String(n).padStart(width, "0")
PadStart(s, width) ==
  [k \in 1..(IF Len(s) < width THEN width ELSE Len(s)) |->
     IF Len(s) < width /\ k <= width - Len(s) THEN "0"
     ELSE s[k - (IF Len(s) < width THEN width - Len(s) ELSE 0)]]

\* date.toISOString().slice(0, 10) for a year in 0..9999
ISODay(date) ==
  LET c == CivilFromDays(date[1])
  IN PadStart(NatToStr(c[1]), 4) \o Str("-") \o PadStart(NatToStr(c[2]), 2) \o Str("-")
       \o PadStart(NatToStr(c[3]), 2)

EventTicketsYn_UnavailableWins(offers) ==
  IF \E k \in DOMAIN offers : offers[k].tickets_yn = <<FALSE>> THEN <<FALSE>>
  ELSE IF \E k \in DOMAIN offers : offers[k].tickets_yn = <<TRUE>> THEN <<TRUE>>
  ELSE NoVal

\* the tickets_yn of an event, from its shaped offers
EventTicketsYn(offers) ==
  IF \E k \in DOMAIN offers : offers[k].tickets_yn = <<TRUE>> THEN <<TRUE>>
  ELSE IF \E k \in DOMAIN offers : offers[k].tickets_yn = <<FALSE>> THEN <<FALSE>>
  ELSE NoVal

shapeEvent(e) ==
  LET offers == SortOffers([k \in DOMAIN e.offers |-> ShapeOffer(e.offers[k])])
  IN [ event_id |-> e.id,
       event_name |-> e.eventName,
       date_day |-> ISODay(e.dateDay),
       time_24 |-> e.time24,
       time_12 |-> toTime12(e.time24),
       city |-> e.city,
       state |-> e.state,
       venue |-> e.venue,
       performers |-> SelectSeq([k \in DOMAIN e.performers |-> e.performers[k].name],
                                LAMBDA n : ~Falsy(n)),
       tickets_yn |-> EventTicketsYn(offers),
       offers |-> offers ]

(***************************************************************************)
(* Event Store (the collaborator behind prisma.event.findMany)              *)
(***************************************************************************)

\* value ILIKE %w%: a null column never matches
ContainsInsensitive(value, w) ==
  value # NULL /\ Includes(toLowerCase(value), toLowerCase(w))

\* { OR: cityOr }: the city_norm of the event is one of the listed ones
CityClause(e, cityOrList) == \E k \in DOMAIN cityOrList : e.cityNorm = cityOrList[k].cityNorm

\* the where clause of a query against one event
EventMatches(e, where) ==
  /\ IF where.dateOp = "equals" THEN e.dateDay = where.dateDay
     ELSE e.dateDay[1] >= where.dateDay[1]
  /\ where.stateNorm = NULL \/ e.stateNorm = where.stateNorm
  /\ where.notParking =>
       (e.eventName # NULL /\ ~ContainsInsensitive(e.eventName, Str("parking")))
  /\ CityClause(e, where.cityOr)
  /\ IF where.by = "performers"
     THEN \E i \in DOMAIN e.performers :
            \A k \in DOMAIN where.words :
              ContainsInsensitive(e.performers[i].performerNorm, where.words[k])
     ELSE \A k \in DOMAIN where.words : ContainsInsensitive(e.eventName, where.words[k])

\* orderBy: [{ dateDay: "asc" }, { time24: "asc" }], a null time24 last
UpcomingOrder(a, b) ==
  IF a.dateDay[1] # b.dateDay[1] THEN a.dateDay[1] - b.dateDay[1]
  ELSE IF a.time24 = b.time24 THEN 0
  ELSE IF a.time24 = NULL THEN 1
  ELSE IF b.time24 = NULL THEN -1
  ELSE IF LexLess(a.time24, b.time24) THEN -1
  ELSE IF LexLess(b.time24, a.time24) THEN 1
  ELSE 0

RECURSIVE InsertEvent(_, _)
\* x placed after every event it does not precede in the order
InsertEvent(sorted, x) ==
  IF sorted = <<>> THEN <<x>>
  ELSE IF UpcomingOrder(x, Head(sorted)) < 0 THEN <<x>> \o sorted
  ELSE <<Head(sorted)>> \o InsertEvent(Tail(sorted), x)

RECURSIVE OrderEventsFrom(_, _)
OrderEventsFrom(sorted, rest) ==
  IF rest = <<>> THEN sorted
  ELSE OrderEventsFrom(InsertEvent(sorted, Head(rest)), Tail(rest))

\* the rows in the order of orderBy, rows of equal rank in table order
OrderEvents(rows) == OrderEventsFrom(<<>>, rows)

\* arr.slice(0, n)
Take(arr, n) == SubSeq(arr, 1, IF Len(arr) < n THEN Len(arr) ELSE n)

\* prisma.event.findMany({ where, include, orderBy, take }) on the rows of
\* the Event table; rows of equal rank come in table order
findMany(rows, query) ==
  LET hits == SelectSeq(rows, LAMBDA e : EventMatches(e, query.where))
  IN Take(IF query.ordered THEN OrderEvents(hits) ELSE hits, query.take)

(***************************************************************************)
(* Event Resolver: POST /match                                              *)
(***************************************************************************)

\* a request field that is present but not a string (z.string() rejects it)
NOTSTRING == <<"<number>">>

\* a key absent from a JSON object
UNDEFINED == <<"<undefined>">>

\* MatchRequest.parse(req.body) succeeds
MatchRequestValid(body) ==
  \A f \in {"performer_query", "raw_title", "city", "state", "date_day", "time_24"} :
    body[f] # NOTSTRING

EXACT_TAKE == 25
UPCOMING_TAKE == 4
UPCOMING_SHOWN == 3

NoFallback == [isNull |-> TRUE]

(***************************************************************************)
(* The request fields of the model, and the text functions tabulated on them *)
(***************************************************************************)

PerformerInputs ==
  { NULL, Str("Zach Bryan"), Str("!!!"), Str("Tickets"), Str("Bryan Adams Tour 2026"),
    Str("The Hondo Rodeo Fest - 3 Day Package") }

TitleInput == Str("Zach Bryan Tickets - Austin | TM")

CityInputs == { NULL, Str("Austin"), Str("Ft Worth"), Str("The Arena") }

StateInputs == { NULL, Str("TX"), Str("ZZ"), Str("Texass"), Str("Texas") }

DateInputs ==
  { NULL, Str("2026-12-01"), Str("2026-11-03"), Str("2026-11-02"), Str("12/01/2026") }

TimeInputs == { NULL, Str("19:30"), Str("18:00") }

CityHeads ==
  { Str("Ft"), Str("Fort"), Str("St"), Str("Saint"), Str("St."), Str("FORT"), Str("Port"),
    Str("West") }

CityTails ==
  { Str("Worth"), Str("Paul"), Str("St Lucie"), Str("Ft Myers"), Str("Valley City"),
    Str("Saint John") }

\* the city texts a request can carry
CityTexts ==
  { h \o Str(" ") \o tl : h \in CityHeads, tl \in CityTails }
    \cup { NULL, Str("Ft"), Str("Saint"), Str("Austin"), Str("Ft Worth Tickets 2026-12-01 St Paul"),
           Str(""), Str(" "), Str("!!!"), Str("The Tour"), Str("19:30 Austin") }

\* cityVariants and PickPerformer on the inputs of the model, computed once
CityVariantsTable ==
  { <<OrEmpty(x), cityVariants(OrEmpty(x))>> : x \in CityInputs \cup CityTexts }

\* the value a table of <<key, value>> rows holds for a key
TableLookup(table, key) == (CHOOSE row \in table : row[1] = key)[2]

CityVariantsOf(c) == TableLookup(CityVariantsTable, c)

UsableDate_KeepsPast(dateDayRaw, today) == dateDayRaw

\* lines 730-732: a date in the past is treated as no date
UsableDate(dateDayRaw, today) ==
  LET dateIsPast == IF dateDayRaw # NoDate THEN DateBefore(dateDayRaw, today) ELSE FALSE
  IN IF dateIsPast THEN NoDate ELSE dateDayRaw

\* line 691
PerformerFromQuery(performer_query) == OrNull(Trim(OrEmpty(performer_query)))

\* lines 692-697: performerFromQuery || performerFromTitle || null
PerformerPickedRaw(performerFromQuery, raw_title) ==
  IF ~Falsy(performerFromQuery) THEN performerFromQuery
  ELSE OrNull(IF ~Falsy(raw_title) THEN extractPerformerFromTitle(raw_title) ELSE NULL)

\* line 698: the cleaned string, or the raw one when cleaning leaves nothing
PerformerPicked(performerPickedRaw, cleaned) ==
  IF ~Falsy(performerPickedRaw)
  THEN (IF ~Falsy(cleaned) THEN cleaned ELSE performerPickedRaw)
  ELSE NULL

\* lines 701-703
PerformerWords(performerNorm) ==
  filterPerformerWords(IF ~Falsy(performerNorm)
                       THEN FilterBoolean(SplitOn(performerNorm, " ")) ELSE <<>>)

\* lines 716-726
Fallback(performerPicked, performerFromQuery, fb) ==
  IF ~Falsy(performerPicked)
  THEN [isNull |-> FALSE,
        performer_input |-> performerPicked,
        performer_source |-> IF ~Falsy(performerFromQuery)
                             THEN "performer_query" ELSE "raw_title",
        performer_slug |-> fb.slug,
        performer_links |-> fb.links]
  ELSE NoFallback

PickedFrom(performerFromQuery, performerPicked) ==
  [ performerPicked |-> performerPicked,
    performerWords |-> PerformerWords(normText(OrEmpty(performerPicked))),
    fallback |-> Fallback(performerPicked, performerFromQuery,
                          IF ~Falsy(performerPicked) THEN buildPerformerLinks(performerPicked)
                          ELSE [slug |-> NULL, links |-> NoLinks]) ]

PickedFromRaw(performerFromQuery, performerPickedRaw) ==
  PickedFrom(performerFromQuery,
             PerformerPicked(performerPickedRaw, cleanPerformerPicked(performerPickedRaw)))

PickedFromQuery(performerFromQuery, raw_title) ==
  PickedFromRaw(performerFromQuery, PerformerPickedRaw(performerFromQuery, raw_title))

\* lines 690-703 and 715-726: the performer string picked from the request,
\* its words, and the fallback links
PickPerformer(performer_query, raw_title) ==
  PickedFromQuery(PerformerFromQuery(performer_query), raw_title)

PerformerFields ==
  (PerformerInputs \X {NULL}) \cup ({NULL, Str("!!!")} \X {TitleInput})

PickedPerformerTable == { <<p, PickPerformer(p[1], p[2])>> : p \in PerformerFields }

PickedPerformerOf(performer_query, raw_title) ==
  TableLookup(PickedPerformerTable, <<performer_query, raw_title>>)

\* the locals of the handler up to the guard (lines 688-732); the text
\* functions are read from the tables above, for the inputs of the model
Locals(performer, cityNormVariants, st, dateDayRaw, time_24, today) ==
  [ performerPicked |-> performer.performerPicked,
    performerWords |-> performer.performerWords,
    cityNormVariants |-> cityNormVariants,
    cityNorm |-> IF cityNormVariants = <<>> THEN <<>> ELSE OrEmpty(cityNormVariants[1]),
    stateNorm |-> IF st.isNull THEN <<>> ELSE OrEmpty(st.stateNorm),
    dateDayRaw |-> dateDayRaw,
    dateDay |-> UsableDate(dateDayRaw, today),
    time24 |-> OrNull(time_24),
    fallback |-> performer.fallback,
    today |-> today ]

Prepare(input, maps) ==
  Locals(PickedPerformerOf(input.performer_query, input.raw_title),
         CityVariantsOf(OrEmpty(input.city)),
         normalizeState(input.state, maps),
         IF ~Falsy(input.date_day) THEN parseDateDayFromYMD(input.date_day) ELSE NoDate,
         input.time_24,
         todayUtcMidnight)

\* cityNormVariants.map((c) => ({ cityNorm: c }))
cityOr(c) == [k \in DOMAIN c.cityNormVariants |-> [cityNorm |-> c.cityNormVariants[k]]]

\* ...(stateNorm ? { stateNorm } : {})
StateClause(c) == IF c.stateNorm = <<>> THEN NULL ELSE c.stateNorm

\* the two exact-mode queries of a variant (lines 770-803)
ExactQuery(c, words, by) ==
  [ where |-> [ dateOp |-> "equals", dateDay |-> c.dateDay, stateNorm |-> StateClause(c),
                notParking |-> FALSE, cityOr |-> cityOr(c), by |-> by, words |-> words ],
    ordered |-> FALSE,
    take |-> EXACT_TAKE ]

upcomingExcludeWhere_None == FALSE

\* upcomingExcludeWhere() is the NOT eventName contains "parking" clause
upcomingExcludeWhere == TRUE

\* the two upcoming-mode queries of a variant (lines 830-867)
UpcomingQuery(c, words, by) ==
  [ where |-> [ dateOp |-> "gte", dateDay |-> c.today, stateNorm |-> StateClause(c),
                notParking |-> upcomingExcludeWhere, cityOr |-> cityOr(c), by |-> by,
                words |-> words ],
    ordered |-> TRUE,
    take |-> UPCOMING_TAKE ]

applyTimeTiebreak_AlwaysNarrows(events, time24) ==
  IF Falsy(time24) THEN events ELSE SelectSeq(events, LAMBDA e : OrEmpty(e.time24) = time24)

\* lines 751-758
applyTimeTiebreak(events, time24) ==
  LET byTime == SelectSeq(events, LAMBDA e : OrEmpty(e.time24) = time24)
  IN IF Len(events) > 1 /\ ~Falsy(time24) /\ Len(byTime) > 0 THEN byTime ELSE events

\* no query outstanding
NoQuery == [isNull |-> TRUE]

\* res.json(body) and res.status(400).json({ error }); a body without the
\* matches key is written with status 400 (or 0, no response) and no match
\* a body without the fallback key
AbsentFallback == [isNull |-> TRUE, isUndefined |-> TRUE]

JsonResponse(confidence, reason, matches, hint, fallback) ==
  [ status |-> 200, confidence |-> confidence, reason |-> reason, matches |-> matches,
    hint |-> hint, fallback |-> fallback, error |-> "undefined" ]

ErrorResponse(e) ==
  [ status |-> 400, confidence |-> "undefined", reason |-> "undefined", matches |-> <<>>,
    hint |-> UNDEFINED, fallback |-> AbsentFallback, error |-> e ]

NoResponse ==
  [ status |-> 0, confidence |-> "undefined", reason |-> "undefined", matches |-> <<>>,
    hint |-> UNDEFINED, fallback |-> AbsentFallback, error |-> "undefined" ]

GUARD_HINT ==
  Str("Need (performer_query or raw_title) + city. date_day optional; state/time optional.")

UPCOMING_HINT == Str("add date for exact match")

\* the handler returns a response: no query is outstanding any more
Respond(H, resp) == [H EXCEPT !.pc = "responded", !.pending = NoQuery, !.response = resp]

Issue_StaysOnFirstVariant(H, mode, variants, vi, by) ==
  [H EXCEPT !.pc = "awaiting", !.mode = mode, !.variants = variants, !.vi = 1, !.by = by,
            !.pending = IF mode = "exact" THEN ExactQuery(H.c, variants[1], by)
                        ELSE UpcomingQuery(H.c, variants[1], by)]

\* the handler awaits prisma.event.findMany for variant vi of the mode
Issue(H, mode, variants, vi, by) ==
  [H EXCEPT !.pc = "awaiting", !.mode = mode, !.variants = variants, !.vi = vi, !.by = by,
            !.pending = IF mode = "exact" THEN ExactQuery(H.c, variants[vi], by)
                        ELSE UpcomingQuery(H.c, variants[vi], by)]

NoUpcomingResponse_Throws(H) == Respond(H, ErrorResponse("NoMatchError"))

\* lines 873-880: no variant of upcoming mode gave a result
NoUpcomingResponse(H) ==
  Respond(H, JsonResponse("low", "no_upcoming_in_city", <<>>, UNDEFINED, H.c.fallback))

\* lines 824-829: upcoming mode starts with its first variant
StartUpcoming(H) ==
  LET variants == buildWordVariants(H.c.performerWords, "upcoming")
  IN IF variants = <<>> THEN NoUpcomingResponse(H)
     ELSE Issue(H, "upcoming", variants, 1, "performers")

\* lines 765-768: exact mode starts with its first variant
StartExact(H) ==
  LET variants == buildWordVariants(H.c.performerWords, "exact")
  IN IF variants = <<>> THEN StartUpcoming(H)
     ELSE Issue(H, "exact", variants, 1, "performers")

\* line 816: every exact variant came back empty, the handler falls through
\* to upcoming mode
ExactExhausted_Throws(H) == Respond(H, ErrorResponse("NoExactMatchError"))

ExactExhausted(H) == StartUpcoming(H)

ExactResponse_CountsHits(H, events) ==
  LET filtered == applyTimeTiebreak(events, H.c.time24)
  IN Respond(H, JsonResponse(IF Len(events) = 1 THEN "high" ELSE "medium",
                             IF Len(events) = 1 THEN "exact_or_tiebroken" ELSE "multiple",
                             [k \in DOMAIN filtered |-> shapeEvent(filtered[k])],
                             UNDEFINED, H.c.fallback))

\* lines 806-814
ExactResponse(H, events) ==
  LET filtered == applyTimeTiebreak(events, H.c.time24)
  IN Respond(H, JsonResponse(IF Len(filtered) = 1 THEN "high" ELSE "medium",
                             IF Len(filtered) = 1 THEN "exact_or_tiebroken" ELSE "multiple",
                             [k \in DOMAIN filtered |-> shapeEvent(filtered[k])],
                             UNDEFINED, H.c.fallback))

UpcomingResponse_NoSlice(H, upcoming) ==
  Respond(H, JsonResponse("medium", "upcoming_in_city",
                          [k \in DOMAIN upcoming |-> shapeEvent(upcoming[k])],
                          IF Len(upcoming) > UPCOMING_SHOWN THEN UPCOMING_HINT ELSE NULL,
                          H.c.fallback))

\* lines 882-891
UpcomingResponse(H, upcoming) ==
  LET hasMoreThan3 == Len(upcoming) > UPCOMING_SHOWN
      sliced == Take(upcoming, UPCOMING_SHOWN)
  IN Respond(H, JsonResponse("medium", "upcoming_in_city",
                             [k \in DOMAIN sliced |-> shapeEvent(sliced[k])],
                             IF hasMoreThan3 THEN UPCOMING_HINT ELSE NULL, H.c.fallback))

MissingRequiredFields_CityOnly(c) == c.cityNorm = <<>>

\* line 735: if (!cityNorm || performerWords.length === 0)
MissingRequiredFields(c) == c.cityNorm = <<>> \/ Len(c.performerWords) = 0

\* the handler before any request
IdleHandler ==
  [ pc |-> "idle", req |-> NoQuery, c |-> NoQuery, mode |-> "none", variants |-> <<>>,
    vi |-> 0, by |-> "none", pending |-> NoQuery, log |-> <<>>, response |-> NoResponse ]

\* the handler from the arrival of a request to its first await or to its
\* response (lines 686-768, 824-829)
Parsed(H) ==
  IF MissingRequiredFields(H.c)
  THEN Respond(H, JsonResponse("low", "missing_required_fields", <<>>, GUARD_HINT,
                               H.c.fallback))
  ELSE IF H.c.dateDay # NoDate THEN StartExact(H)
  ELSE StartUpcoming(H)

OnRequest(body, maps) ==
  IF ~MatchRequestValid(body)
  THEN Respond([IdleHandler EXCEPT !.req = body], ErrorResponse("ZodError"))
  ELSE Parsed([IdleHandler EXCEPT !.req = body, !.c = Prepare(body, maps)])

\* one entry of the log of store queries of a request
LogEntry(H, ids, failed) ==
  [ query |-> H.pending, mode |-> H.mode, vi |-> H.vi, by |-> H.by, ids |-> ids,
    failed |-> failed ]

OnResult_SkipsDisplayName(H, events) ==
  LET L == [H EXCEPT !.log = Append(H.log, LogEntry(H, [k \in DOMAIN events |-> events[k].id],
                                                    FALSE))]
  IN IF events # <<>>
     THEN (IF H.mode = "exact" THEN ExactResponse(L, events)
           ELSE UpcomingResponse(L, events))
     ELSE IF H.vi < Len(H.variants)
          THEN Issue(L, H.mode, H.variants, H.vi + 1, "performers")
     ELSE IF H.mode = "exact" THEN ExactExhausted(L)
     ELSE NoUpcomingResponse(L)

\* the handler from the return of the awaited findMany to its next await or
\* to its response (lines 787-817, 848-891)
OnResult(H, events) ==
  LET L == [H EXCEPT !.log = Append(H.log, LogEntry(H, [k \in DOMAIN events |-> events[k].id],
                                                    FALSE))]
  IN IF H.by = "performers" /\ events = <<>>
     THEN Issue(L, H.mode, H.variants, H.vi, "eventName")
     ELSE IF events # <<>>
          THEN (IF H.mode = "exact" THEN ExactResponse(L, events)
                ELSE UpcomingResponse(L, events))
     ELSE IF H.vi < Len(H.variants)
          THEN Issue(L, H.mode, H.variants, H.vi + 1, "performers")
     ELSE IF H.mode = "exact" THEN ExactExhausted(L)
     ELSE NoUpcomingResponse(L)

OnFailure_TriesNextVariant(H) ==
  LET L == [H EXCEPT !.log = Append(H.log, LogEntry(H, <<>>, TRUE))]
  IN IF H.vi < Len(H.variants) THEN Issue(L, H.mode, H.variants, H.vi + 1, "performers")
     ELSE Respond(L, ErrorResponse("PrismaClientError"))

\* the awaited findMany rejects: the catch of lines 892-894
OnFailure(H) ==
  Respond([H EXCEPT !.log = Append(H.log, LogEntry(H, <<>>, TRUE))],
          ErrorResponse("PrismaClientError"))

RECURSIVE RunFrom(_, _)
RunFrom(H, rows) ==
  IF H.pc = "awaiting" THEN RunFrom(OnResult(H, findMany(rows, H.pending)), rows) ELSE H

\* the handler run on a request alone, every query answered by the store
RunAlone(body, maps, rows) == RunFrom(OnRequest(body, maps), rows)

(***************************************************************************)
(* The store, the state table and the requests of the model                 *)
(***************************************************************************)

\* the records of data/state_abbr.csv (name, abbr) the model loads
STATE_CSV ==
  << [name |-> Str("Texas"), abbr |-> Str("TX")],
     [name |-> Str("Minnesota"), abbr |-> Str("MN")] >>

\* an offer row as ingestion writes it (promoPercent comes from elsewhere)
OfferRow(source, priceMin, priceMax, promoPercent, ticketsYn) ==
  [ source |-> source, url |-> Str("https://") \o Str(source) \o Str(".example/e"),
    priceMin |-> priceMin, priceMax |-> priceMax, promoPercent |-> promoPercent,
    ticketsYn |-> ticketsYn ]

\* an Event row with its linked performers and offers, as the create branch
\* of the ingestion upsert writes it: each normalized column is normText of
\* the raw one, a falsy value stored as null
EventRow(id, eventName, ymd, time24, city, state, performerNames, offers) ==
  [ id |-> Str(id),
    eventName |-> OrNull(eventName),
    dateDay |-> parseDateDayFromYMD(Str(ymd)),
    time24 |-> time24,
    city |-> OrNull(city),
    cityNorm |-> OrNull(normText(city)),
    state |-> OrNull(state),
    stateNorm |-> OrNull(normText(state)),
    venue |-> NULL,
    performers |-> [k \in DOMAIN performerNames |->
                      [name |-> OrNull(performerNames[k]),
                       performerNorm |-> OrNull(normText(performerNames[k]))]],
    offers |-> offers ]

\* the events the store can hold, in table order
Catalog ==
  << EventRow("e01", Str("Zach Bryan"), "2026-12-01", Str("19:30"), Str("Austin"), Str("Texas"),
              <<Str("Zach Bryan")>>,
              << OfferRow("tn", <<10000>>, <<25000>>, NoVal, <<TRUE>>),
                 OfferRow("geturtix", <<10000>>, <<20000>>, <<20>>, <<FALSE>>),
                 OfferRow("tl", NoVal, NoVal, NoVal, NoVal) >>),
     EventRow("e02", Str("Zach Bryan - Late Show"), "2026-12-01", Str("21:00"), Str("Austin"),
              Str("Texas"), <<Str("Zach Bryan")>>,
              << OfferRow("sbs", <<9000>>, <<9000>>, NoVal, <<TRUE>>) >>),
     EventRow("e03", Str("PARKING: Zach Bryan"), "2026-12-01", NULL, Str("Austin"),
              Str("Texas"), <<Str("Zach Bryan")>>, <<>>),
     EventRow("e04", Str("Zach Bryan"), "2026-12-05", Str("20:00"), Str("Austin"), Str("Texas"),
              <<Str("Zach Bryan")>>, <<>>),
     EventRow("e05", Str("Zach Bryan"), "2026-11-20", Str("20:00"), Str("Austin"), Str("Texas"),
              <<Str("Zach Bryan")>>, <<>>),
     EventRow("e06", Str("Zach Bryan"), "2026-11-20", Str("18:00"), Str("Austin"), Str("Texas"),
              <<Str("Zach Bryan")>>, <<>>),
     EventRow("e07", Str("Zach Bryan"), "2026-10-01", Str("20:00"), Str("Austin"), Str("Texas"),
              <<Str("Zach Bryan")>>, <<>>),
     EventRow("e08", Str("The Hondo Rodeo Fest"), "2026-12-01", Str("19:30"), Str("Fort Worth"),
              Str("Texas"), <<Str("PRCA Rodeo")>>,
              << OfferRow("tn", <<5000>>, <<7000>>, NoVal, <<FALSE>>) >>),
     EventRow("e09", Str("Zach Bryan"), "2026-12-01", Str("19:30"), Str("Austin"),
              Str("Minnesota"), <<Str("Zach Bryan")>>, <<>>),
     EventRow("e10", Str("Zach Bryan"), "2026-12-09", NULL, Str("Austin"), Str("Texas"),
              <<Str("Zach Bryan")>>, <<>>) >>

\* the number of catalogue events in the store
MaxStoreRows == 9

StoreRows == Take(Catalog, MaxStoreRows)

\* a body MatchRequest.parse rejects
BadBody ==
  [ performer_query |-> NOTSTRING, raw_title |-> NULL, city |-> Str("Austin"), state |-> NULL,
    date_day |-> NULL, time_24 |-> NULL ]

Requests ==
  { [ performer_query |-> p[1], raw_title |-> p[2], city |-> c, state |-> s, date_day |-> d,
      time_24 |-> tm ] :
      p \in PerformerFields, c \in CityInputs, s \in StateInputs,
      d \in DateInputs, tm \in TimeInputs }
  \cup {BadBody}

(***************************************************************************)
(* The state machine                                                        *)
(***************************************************************************)

VARIABLES
  stateMaps,      \* stateNameToAbbr and stateAbbrToName
  store,          \* the rows of the Event table, with their performers and offers
  handler,        \* the /match handler of one request
  cityResolver,   \* cityVariants and the city filter, run on a city text
  offerPresenter,  \* shapeEvent, run on an event with its offers
  textNormalizer,   \* normText, run on a text and on its own result
  wordBuilder,       \* buildWordVariants and the loop over its variants, run on a token list
  inflight,           \* the /match handlers of requests in flight together
  ingest,              \* the Offer table and the ingestion runs that write it
  tables               \* the Event, Performer, EventPerformer and Offer tables of a feed

vars ==
  <<stateMaps, store, handler, cityResolver, offerPresenter, textNormalizer, wordBuilder, inflight, ingest, tables>>

\* the City Resolver and the Offer Presenter when they are not run on their own
IdleCityResolver == [pc |-> "idle", input |-> NULL, variants |-> <<>>, accepted |-> <<>>]

IdleOfferPresenter == [pc |-> "idle"]

IdleTextNormalizer == [pc |-> "idle"]

IdleWordBuilder == [pc |-> "idle"]

NoneInFlight == [handlers |-> <<>>, overlapped |-> {}]

\* the tables after the migration: no rows, and no feed row read
NoTables ==
  [events |-> <<>>, performers |-> <<>>, joins |-> <<>>, offers |-> <<>>, source |-> "", rows |-> 0]

\* an empty Offer table and no ingestion run
NoIngest == [offers |-> EmptyBag, runs |-> <<>>]

\* the process after start-up: loadStateMaps() has run, on the CSV or on
\* nothing when the file is missing
Init ==
  /\ stateMaps \in {loadStateMaps(STATE_CSV), loadStateMaps(NULL)}
  /\ store = StoreRows
  /\ handler = IdleHandler
  /\ tables = NoTables
  /\ ingest = NoIngest
  /\ inflight = NoneInFlight
  /\ wordBuilder = IdleWordBuilder
  /\ textNormalizer = IdleTextNormalizer
  /\ cityResolver = IdleCityResolver
  /\ offerPresenter = IdleOfferPresenter

\* POST /match arrives
Receive ==
  /\ handler.pc = "idle"
  /\ \E body \in Requests : handler' = OnRequest(body, stateMaps)
  /\ UNCHANGED <<stateMaps, store, cityResolver, offerPresenter, textNormalizer, wordBuilder, inflight, ingest, tables>>

\* the awaited store query resolves
QueryReturns ==
  /\ handler.pc = "awaiting"
  /\ handler' = OnResult(handler, findMany(store, handler.pending))
  /\ UNCHANGED <<stateMaps, store, cityResolver, offerPresenter, textNormalizer, wordBuilder, inflight, ingest, tables>>

\* the awaited store query rejects
QueryFails ==
  /\ handler.pc = "awaiting"
  /\ handler' = OnFailure(handler)
  /\ UNCHANGED <<stateMaps, store, cityResolver, offerPresenter, textNormalizer, wordBuilder, inflight, ingest, tables>>

Next == Receive \/ QueryReturns \/ QueryFails

Spec == Init /\ [][Next]_vars

(***************************************************************************)
(* Properties of POST /match                                                *)
(***************************************************************************)

Responded == handler.pc = "responded"

\* the handler has answered with a non-error body
Answered == Responded /\ handler.response.status = 200

\* the handler holds a parsed request and its locals
Prepared == handler.pc # "idle" /\ MatchRequestValid(handler.req)

\* the store queries a handler has issued so far, in order
IssuedQueries(H) ==
  [k \in DOMAIN H.log |-> H.log[k].query]
    \o (IF H.pc = "awaiting" THEN <<H.pending>> ELSE <<>>)

IsPrefix(a, b) == Len(a) <= Len(b) /\ SubSeq(b, 1, Len(a)) = a

LastEntry == handler.log[Len(handler.log)]

\* the response was built from the result of a query of that mode
HitIn(mode) ==
  /\ Answered
  /\ Len(handler.log) > 0
  /\ LastEntry.mode = mode
  /\ LastEntry.ids # <<>>

EventById(id) == store[CHOOSE k \in DOMAIN store : store[k].id = id]

MatchIds == [k \in DOMAIN handler.response.matches |-> handler.response.matches[k].event_id]

\* date_day has the shape YYYY-MM-DD
DateParses(body) == ~Falsy(body.date_day) /\ RxTest(RE_YMD, body.date_day)

DateIsPast(body) ==
  DateParses(body) /\ parseDateDayFromYMD(body.date_day)[1] < NowDay

\* C1: exact-mode queries (date_day equality) are issued only when date_day
\* parses as YYYY-MM-DD and is not earlier than today's UTC midnight, and a
\* request whose date_day is earlier than today issues the same queries and
\* gets the same response as the same request without date_day.
C1_PastDateIsNoDate ==
  handler.pc # "idle" =>
    /\ \A k \in DOMAIN IssuedQueries(handler) :
         IssuedQueries(handler)[k].where.dateOp = "equals" =>
           /\ DateParses(handler.req)
           /\ ~DateIsPast(handler.req)
           /\ IssuedQueries(handler)[k].where.dateDay = parseDateDayFromYMD(handler.req.date_day)
    /\ DateIsPast(handler.req) =>
         LET alone == RunAlone([handler.req EXCEPT !.date_day = NULL], stateMaps, store)
         IN /\ IsPrefix(IssuedQueries(handler), IssuedQueries(alone))
            /\ Answered => /\ handler.log = alone.log
                           /\ handler.response = alone.response

\* a request with a past date was answered from upcoming-mode queries
C1_Witness ==
  /\ Answered
  /\ DateIsPast(handler.req)
  /\ Len(handler.log) > 0
  /\ handler.response.reason = "upcoming_in_city"

\* the guard case: no city variant, or no performer token left
GuardCase ==
  /\ Prepared
  /\ handler.c.cityNormVariants = <<>> \/ handler.c.performerWords = <<>>

GuardResponse ==
  /\ Responded
  /\ handler.log = <<>>
  /\ handler.response.status = 200
  /\ handler.response.confidence = "low"
  /\ handler.response.reason = "missing_required_fields"
  /\ handler.response.matches = <<>>

RemainingAfterTiebreak(hits, time) ==
  LET sameTime == SelectSeq(hits, LAMBDA e : e.time24 = time)
  IN IF Len(hits) > 1 /\ ~Falsy(time) /\ sameTime # <<>> THEN sameTime ELSE hits

ExactHits == [k \in DOMAIN LastEntry.ids |-> EventById(LastEntry.ids[k])]

\* C3: an exact-mode hit is answered high / exact_or_tiebroken if and only if
\* exactly one event remains after the time tie-break; otherwise it is
\* answered medium / multiple; the matches are all the remaining events.
C3_ExactConfidence ==
  HitIn("exact") =>
    LET remaining == RemainingAfterTiebreak(ExactHits, handler.req.time_24)
    IN /\ (handler.response.confidence = "high"
             /\ handler.response.reason = "exact_or_tiebroken") <=> Len(remaining) = 1
       /\ Len(remaining) # 1 => /\ handler.response.confidence = "medium"
                                /\ handler.response.reason = "multiple"
       /\ MatchIds = [k \in DOMAIN remaining |-> remaining[k].id]

\* several events hit and the tie-break left exactly one
C3_Witness ==
  /\ HitIn("exact")
  /\ Len(LastEntry.ids) > 1
  /\ handler.response.confidence = "high"
  /\ Len(handler.response.matches) = 1

\* the events of the store that satisfy the where clause of the last query
Qualifying == SelectSeq(store, LAMBDA e : EventMatches(e, LastEntry.query.where))

\* x comes strictly before m by date, then time
StrictlyEarlier(x, m) ==
  \/ x.dateDay[1] < m.dateDay[1]
  \/ /\ x.dateDay = m.dateDay
     /\ x.time24 # NULL
     /\ m.time24 # NULL
     /\ LexLess(x.time24, m.time24)

\* C4: an upcoming-mode response never has more than 3 matches; when more
\* than 3 events qualify for the query that hit, the matches are the 3
\* earliest (date, then time), in order, with medium / upcoming_in_city and a
\* hint; when 1 to 3 qualify, all are returned and the hint is null.
C4_UpcomingCap ==
  HitIn("upcoming") =>
    LET all == Qualifying
        shown == [k \in DOMAIN MatchIds |-> EventById(MatchIds[k])]
    IN /\ Len(shown) <= 3
       /\ handler.response.confidence = "medium"
       /\ handler.response.reason = "upcoming_in_city"
       /\ \A k \in DOMAIN shown : \E j \in DOMAIN all : all[j] = shown[k]
       /\ \A j, k \in DOMAIN shown : j < k =>
            shown[j].id # shown[k].id /\ ~StrictlyEarlier(shown[k], shown[j])
       /\ Len(all) > 3 =>
            /\ Len(shown) = 3
            /\ \A j \in DOMAIN all :
                 (\A k \in DOMAIN shown : shown[k].id # all[j].id) =>
                   \A k \in DOMAIN shown : ~StrictlyEarlier(all[j], shown[k])
            /\ handler.response.hint = UPCOMING_HINT
       /\ Len(all) <= 3 =>
            /\ Len(shown) = Len(all)
            /\ handler.response.hint = NULL

\* more than 4 events qualified and 3 were returned with the hint
C4_Witness ==
  /\ HitIn("upcoming")
  /\ Len(Qualifying) > 4
  /\ Len(handler.response.matches) = 3
  /\ handler.response.hint = UPCOMING_HINT

ResponsePairs ==
  { <<"high", "exact_or_tiebroken">>, <<"medium", "multiple">>,
    <<"medium", "upcoming_in_city">>, <<"low", "no_upcoming_in_city">>,
    <<"low", "missing_required_fields">> }

\* every variant of upcoming mode came back empty
UpcomingExhausted ==
  /\ Responded
  /\ Len(handler.log) > 0
  /\ LastEntry.mode = "upcoming"
  /\ LastEntry.by = "eventName"
  /\ LastEntry.vi = Len(handler.variants)
  /\ LastEntry.ids = <<>>
  /\ ~LastEntry.failed

\* C5: a non-error response carries one of the five (confidence, reason)
\* pairs, has no match exactly when the confidence is low, and exactly one
\* match when it is high; when no upcoming variant gives a result the
\* response is low / no_upcoming_in_city with no match, not an error.
C5_ResponseShape ==
  /\ Answered =>
       /\ <<handler.response.confidence, handler.response.reason>> \in ResponsePairs
       /\ handler.response.matches = <<>> <=> handler.response.confidence = "low"
       /\ handler.response.confidence = "high" => Len(handler.response.matches) = 1
  /\ UpcomingExhausted =>
       /\ handler.response.status = 200
       /\ handler.response.confidence = "low"
       /\ handler.response.reason = "no_upcoming_in_city"
       /\ handler.response.matches = <<>>

\* exact mode and then upcoming mode were both exhausted
C5_Witness ==
  /\ UpcomingExhausted
  /\ Answered
  /\ \E k \in DOMAIN handler.log : handler.log[k].mode = "exact"

\* the state text of a request that the state table does not resolve: an
\* abbreviation missing from stateAbbrToName, or a full name missing from
\* stateNameToAbbr (every state, when the table is empty)
UnresolvedState(body, maps) ==
  LET raw == Trim(OrEmpty(body.state))
  IN /\ raw # <<>>
     /\ IF RxTest(RE_STATE_ABBR, raw)
        THEN toLowerCase(raw) \notin DOMAIN maps.abbrToName
        ELSE normText(raw) \notin DOMAIN maps.nameToAbbr

\* C6: for a request whose state text the state table does not resolve,
\* every store query is issued without a state constraint, and the response
\* equals that of the same request with state omitted.
C6_UnresolvedStateIsNoFilter ==
  (Prepared /\ UnresolvedState(handler.req, stateMaps)) =>
    /\ \A k \in DOMAIN IssuedQueries(handler) :
         IssuedQueries(handler)[k].where.stateNorm = NULL
    /\ Answered =>
         handler.response =
           RunAlone([handler.req EXCEPT !.state = NULL], stateMaps, store).response

\* the exact-mode variants of the request in hand
ExactVariants == buildWordVariants(handler.c.performerWords, "exact")

\* the first 2n entries of the log are the exact-mode queries of the n
\* variants in order, performer-link then display-name, each returned empty
ExactAllEmptyOf(variants) ==
  /\ handler.c.dateDay # NoDate
  /\ Len(handler.log) >= 2 * Len(variants)
  /\ \A j \in 1..(2 * Len(variants)) :
       /\ handler.log[j].mode = "exact"
       /\ handler.log[j].vi = (j + 1) \div 2
       /\ handler.log[j].by = (IF j % 2 = 1 THEN "performers" ELSE "eventName")
       /\ handler.log[j].query = ExactQuery(handler.c, variants[(j + 1) \div 2],
                                            handler.log[j].by)
       /\ handler.log[j].ids = <<>>
       /\ ~handler.log[j].failed

ExactAllEmpty == ExactAllEmptyOf(ExactVariants)

\* C8: with a non-past date, an upcoming-mode query is issued only after
\* every exact-mode query (two per variant) has returned empty; once they all
\* have, the handler raises no error and awaits the first upcoming-mode
\* query, and its response, when no store query fails, is upcoming_in_city
\* or no_upcoming_in_city.
C8_ExactFallsThrough ==
  (Prepared /\ ~GuardCase /\ handler.c.dateDay # NoDate) =>
    LET variants == ExactVariants
        allEmpty == ExactAllEmptyOf(variants)
        issued == IssuedQueries(handler)
    IN
    /\ \A k \in DOMAIN issued :
         issued[k].where.dateOp = "gte" => k > 2 * Len(variants) /\ allEmpty
    /\ allEmpty =>
         /\ Len(handler.log) = 2 * Len(variants) =>
              /\ handler.pc = "awaiting"
              /\ handler.mode = "upcoming"
              /\ handler.pending.where.dateOp = "gte"
         /\ Responded =>
              \/ LastEntry.failed
              \/ /\ handler.response.status = 200
                 /\ handler.response.reason \in {"upcoming_in_city", "no_upcoming_in_city"}

\* a dated request whose exact-mode queries all returned empty was answered
\* from upcoming mode
C8_Witness ==
  /\ Answered
  /\ ~GuardCase
  /\ ExactAllEmpty
  /\ Len(ExactVariants) > 1
  /\ handler.response.reason = "upcoming_in_city"

\* C9: in exact mode, when more than one event hits and the request supplies
\* time_24, the matches are the hits whose stored time equals time_24 if
\* there is any, and all the hits otherwise; with one hit or no time_24 the
\* matches are all the hits; the matches are a non-empty subset of the hits.
C9_TimeTiebreak ==
  HitIn("exact") =>
    LET hits == LastEntry.ids
        time == handler.req.time_24
        atTime == SelectSeq(hits, LAMBDA id : EventById(id).time24 = time)
    IN /\ (Len(hits) > 1 /\ ~Falsy(time) /\ atTime # <<>>) => MatchIds = atTime
       /\ (Len(hits) > 1 /\ ~Falsy(time) /\ atTime = <<>>) => MatchIds = hits
       /\ (Len(hits) = 1 \/ Falsy(time)) => MatchIds = hits
       /\ MatchIds # <<>>
       /\ Range(MatchIds) \subseteq Range(hits)

\* several events hit, none at the time of the request: all are kept
C9_Witness ==
  /\ HitIn("exact")
  /\ Len(LastEntry.ids) > 1
  /\ ~Falsy(handler.req.time_24)
  /\ \A k \in DOMAIN LastEntry.ids : EventById(LastEntry.ids[k]).time24 # handler.req.time_24
  /\ MatchIds = LastEntry.ids

\* C18: a store query that fails is the last query of its request, neither
\* retried nor followed by the next variant or mode, and the caller receives
\* an error response without matches.
C18_QueryFailureIsFatal ==
  \A k \in DOMAIN handler.log :
    handler.log[k].failed =>
      /\ k = Len(handler.log)
      /\ handler.pc = "responded"
      /\ handler.pending = NoQuery
      /\ handler.response.status = 400
      /\ handler.response = ErrorResponse("PrismaClientError")
      /\ handler.response.matches = <<>>

\* a query failed after two queries that returned nothing, with variants
\* left to try, and the request ended with the error
C18_Witness ==
  /\ Responded
  /\ Len(handler.log) >= 3
  /\ LastEntry.failed
  /\ LastEntry.vi < Len(handler.variants)
  /\ handler.response.status = 400

\* the store queries of a request in the order of their issue: those
\* answered, and the one the handler waits for
Steps(H) ==
  [k \in DOMAIN H.log |->
     [query |-> H.log[k].query, mode |-> H.log[k].mode, vi |-> H.log[k].vi,
      by |-> H.log[k].by, ids |-> H.log[k].ids]]
    \o (IF H.pc = "awaiting"
        THEN <<[query |-> H.pending, mode |-> H.mode, vi |-> H.vi, by |-> H.by, ids |-> <<>>]>>
        ELSE <<>>)

\* the query of a step is the query of its mode for the variant of its
\* number in the variant list of that mode
QueryOfStep(H, step) ==
  IF step.mode = "exact"
  THEN ExactQuery(H.c, buildWordVariants(H.c.performerWords, "exact")[step.vi], step.by)
  ELSE UpcomingQuery(H.c, buildWordVariants(H.c.performerWords, "upcoming")[step.vi], step.by)

\* C23: the first query of a mode is the performer-link query of variant 1;
\* a query is issued only after the one before it returned nothing, the
\* display-name query of a variant right after the performer-link query of
\* that variant, the performer-link query of the next variant right after
\* the display-name query of a variant, upcoming mode after the last
\* display-name query of exact mode; a query that returns an event is the
\* last one, and the matches of the response are events of its result.
C23_QueryOrderFirstHitWins ==
  \A k \in DOMAIN Steps(handler) :
    /\ Steps(handler)[k].query = QueryOfStep(handler, Steps(handler)[k])
    /\ (k = 1 \/ Steps(handler)[k - 1].mode # Steps(handler)[k].mode)
         => (Steps(handler)[k].vi = 1 /\ Steps(handler)[k].by = "performers")
    /\ k > 1 =>
         /\ Steps(handler)[k - 1].ids = <<>>
         /\ Steps(handler)[k - 1].mode = Steps(handler)[k].mode =>
              IF Steps(handler)[k - 1].by = "performers"
              THEN /\ Steps(handler)[k].vi = Steps(handler)[k - 1].vi
                   /\ Steps(handler)[k].by = "eventName"
              ELSE /\ Steps(handler)[k].vi = Steps(handler)[k - 1].vi + 1
                   /\ Steps(handler)[k].by = "performers"
         /\ Steps(handler)[k - 1].mode # Steps(handler)[k].mode =>
              /\ Steps(handler)[k - 1].mode = "exact"
              /\ Steps(handler)[k - 1].by = "eventName"
              /\ Steps(handler)[k - 1].vi
                   = Len(buildWordVariants(handler.c.performerWords, "exact"))
    /\ Steps(handler)[k].ids # <<>> =>
         /\ k = Len(handler.log)
         /\ Answered
         /\ MatchIds # <<>>
         /\ \A i \in DOMAIN MatchIds :
              \E j \in DOMAIN Steps(handler)[k].ids : Steps(handler)[k].ids[j] = MatchIds[i]

\* the performer-link query of the second variant returned events, after
\* the performer-link query and then the display-name query of the first
\* returned nothing, and broader variants were left untried
C23_Witness ==
  /\ Answered
  /\ Len(handler.log) = 3
  /\ handler.log[1].by = "performers"
  /\ handler.log[2].by = "eventName"
  /\ handler.log[2].vi = 1
  /\ LastEntry.vi = 2
  /\ LastEntry.by = "performers"
  /\ LastEntry.ids # <<>>
  /\ Len(handler.variants) > 2

(***************************************************************************)
(* The City Resolver and the city filter of the store, on their own         *)
(***************************************************************************)

\* the cities of the events of the store
StoredCities ==
  << Str("Fort Worth"), Str("Ft. Worth"), Str("St. Paul"), Str("Saint Paul"),
     Str("Port St. Lucie"), Str("Port Saint Lucie"), Str("Ft Ft Myers"), Str("Ft Fort Myers"),
     Str("Fort Fort Myers"), Str("Salt Lake City"), Str("West Valley City"),
     Str("St St Lucie"), Str("Saint Saint Lucie"), Str("Austin"), Str("Worth") >>

CityStoreRows ==
  [k \in DOMAIN StoredCities |->
     EventRow("c" \o ToString(k), Str("Show"), "2026-12-01", NULL, StoredCities[k],
              Str("Texas"), <<>>, <<>>)]

InitCity ==
  /\ stateMaps = loadStateMaps(STATE_CSV)
  /\ store = CityStoreRows
  /\ handler = IdleHandler
  /\ tables = NoTables
  /\ ingest = NoIngest
  /\ inflight = NoneInFlight
  /\ wordBuilder = IdleWordBuilder
  /\ textNormalizer = IdleTextNormalizer
  /\ offerPresenter = IdleOfferPresenter
  /\ \E city \in CityTexts :
       cityResolver = [pc |-> "input", input |-> city, variants |-> <<>>, accepted |-> <<>>]

\* line 706: cityVariants(input.city || "")
ResolveCity ==
  /\ cityResolver.pc = "input"
  /\ cityResolver' = [cityResolver EXCEPT !.pc = "resolved",
                                          !.variants = CityVariantsOf(OrEmpty(cityResolver.input))]
  /\ UNCHANGED <<stateMaps, store, handler, offerPresenter, textNormalizer, wordBuilder, inflight, ingest, tables>>

\* the OR: cityOr clause of a query (line 746), applied to the rows of the
\* store; the handler issues no query without a variant (line 735)
FilterByCity ==
  /\ cityResolver.pc = "resolved"
  /\ cityResolver.variants # <<>>
  /\ LET rows == SelectSeq(store, LAMBDA e :
                   CityClause(e, cityOr([cityNormVariants |-> cityResolver.variants])))
     IN cityResolver' = [cityResolver EXCEPT !.pc = "filtered",
                                             !.accepted = [k \in DOMAIN rows |-> rows[k].id]]
  /\ UNCHANGED <<stateMaps, store, handler, offerPresenter, textNormalizer, wordBuilder, inflight, ingest, tables>>

NextCity == ResolveCity \/ FilterByCity

SpecCity == InitCity /\ [][NextCity]_vars

\* the other spelling of a first token
OtherSpelling(head) ==
  CASE head = Str("ft") -> Str("fort")
    [] head = Str("fort") -> Str("ft")
    [] head = Str("st") -> Str("saint")
    [] head = Str("saint") -> Str("st")
    [] OTHER -> head

\* the tokens of a normalized text
TokensOf(s) == IF Falsy(s) THEN <<>> ELSE FilterBoolean(SplitOn(s, " "))

\* the normalized form of the city text in hand
NormalizedCity == normText(OrEmpty(cityCandidateFromMessyString(OrEmpty(cityResolver.input))))

\* the normalized city with its first token in the other spelling
FirstTokenSwapped ==
  LET tokens == TokensOf(NormalizedCity)
  IN JoinWith(<<OtherSpelling(tokens[1])>> \o Tail(tokens), <<" ">>)

HasSpelledHead ==
  /\ Len(TokensOf(NormalizedCity)) >= 2
  /\ TokensOf(NormalizedCity)[1] \in {Str("ft"), Str("fort"), Str("st"), Str("saint")}

\* C7: for a city whose normalized form has at least two tokens, the first
\* being ft, fort, st or saint, cityVariants holds both spellings; every
\* variant is the normalized form, an alias of it, or the form with only its
\* first token respelled; and the city filter accepts exactly the events
\* whose city_norm is one of the variants.
C7_FirstTokenSpellings ==
  cityResolver.pc \in {"resolved", "filtered"} =>
    /\ HasSpelledHead =>
         /\ NormalizedCity \in Range(cityResolver.variants)
         /\ FirstTokenSwapped \in Range(cityResolver.variants)
         /\ FirstTokenSwapped # NormalizedCity
    /\ \A k \in DOMAIN cityResolver.variants :
         \/ cityResolver.variants[k] = NormalizedCity
         \/ cityResolver.variants[k] \in Range(CITY_ALIASES(NormalizedCity))
         \/ HasSpelledHead /\ cityResolver.variants[k] = FirstTokenSwapped
    /\ cityResolver.pc = "filtered" =>
         \A k \in DOMAIN store :
           (store[k].id \in Range(cityResolver.accepted))
             <=> (\E v \in Range(cityResolver.variants) : store[k].cityNorm = v)

\* the city Ft Worth was resolved and the filter accepted an event stored
\* under fort worth and one stored under ft worth
C7_Witness ==
  /\ cityResolver.pc = "filtered"
  /\ cityResolver.input = Str("Ft Worth")
  /\ \E k \in DOMAIN store : /\ store[k].cityNorm = Str("fort worth")
                             /\ store[k].id \in Range(cityResolver.accepted)
  /\ \E k \in DOMAIN store : /\ store[k].cityNorm = Str("ft worth")
                             /\ store[k].id \in Range(cityResolver.accepted)

\* the variants hold no text twice
DuplicateFree(seq) == \A i, j \in DOMAIN seq : seq[i] = seq[j] => i = j

\* C15 as stated: cityVariants returns the empty list for an empty input, and
\* for every non-empty input a non-empty, duplicate-free list whose first
\* element is the normalized cleaned input.
C15_NonEmptyInputHasVariants ==
  cityResolver.pc \in {"resolved", "filtered"} =>
    IF Falsy(cityResolver.input) THEN cityResolver.variants = <<>>
    ELSE /\ cityResolver.variants # <<>>
         /\ DuplicateFree(cityResolver.variants)
         /\ cityResolver.variants[1] = NormalizedCity

\* C15 as amended: cityVariants returns the empty list exactly when the
\* normalized cleaned input is null or empty, as it is for an empty input
\* and for an input of punctuation, whitespace or noise words only;
\* otherwise it returns a non-empty, duplicate-free list whose first element
\* is the normalized cleaned input.
C15_VariantsOfNormalizedCity ==
  cityResolver.pc \in {"resolved", "filtered"} =>
    /\ Falsy(cityResolver.input) => cityResolver.variants = <<>>
    /\ IF Falsy(NormalizedCity) THEN cityResolver.variants = <<>>
       ELSE /\ cityResolver.variants # <<>>
            /\ DuplicateFree(cityResolver.variants)
            /\ cityResolver.variants[1] = NormalizedCity

\* a city text with an alias was resolved to its normalized form followed by
\* the alias
C15_Witness ==
  /\ cityResolver.pc = "resolved"
  /\ cityResolver.input = Str("West Valley City")
  /\ cityResolver.variants = <<Str("west valley city"), Str("salt lake city")>>

(***************************************************************************)
(* The Offer Presenter on its own                                           *)
(***************************************************************************)

\* the Source enumeration of the Offer table
SOURCES == <<"geturtix", "tn", "tl", "sbs">>

\* the largest number of offers of an event in the model
MaxOffers == 3

\* priceMin in cents, promoPercent and ticketsYn
OfferPrices == { NoVal, <<0>>, <<2>>, <<3>>, <<10000>>, <<100000000>> }

OfferPromos == { NoVal, <<20>> }

OfferTickets == { NoVal, <<TRUE>>, <<FALSE>> }

\* the offers of an event in store order, one per source at most, with
\* prices and promos
PricedLists ==
  UNION { [1..n -> OfferPrices \X OfferPromos \X {NoVal}] : n \in 0..MaxOffers }

\* the same with one price and every availability
TicketLists ==
  UNION { [1..n -> {<<10000>>} \X {NoVal} \X OfferTickets] : n \in 0..MaxOffers }

EstimatePrices == { NoVal } \cup { <<c>> : c \in (0..10) \cup {250, 10000} }

EstimatePromos == { NoVal } \cup { <<p>> : p \in {0, 7, 20, 50, 90, 100} }

\* one offer, with more prices and promos
EstimateLists == [1..1 -> EstimatePrices \X EstimatePromos \X {NoVal}]

OfferLists == PricedLists \cup TicketLists \cup EstimateLists

MatchedEvent == Catalog[1]

InitOffers ==
  /\ stateMaps = loadStateMaps(STATE_CSV)
  /\ store = StoreRows
  /\ handler = IdleHandler
  /\ tables = NoTables
  /\ ingest = NoIngest
  /\ inflight = NoneInFlight
  /\ wordBuilder = IdleWordBuilder
  /\ textNormalizer = IdleTextNormalizer
  /\ cityResolver = IdleCityResolver
  /\ \E offers \in OfferLists :
       offerPresenter =
         [ pc |-> "matched",
           event |-> [MatchedEvent EXCEPT !.offers =
                        [k \in DOMAIN offers |->
                           OfferRow(SOURCES[k], offers[k][1], offers[k][1], offers[k][2],
                                    offers[k][3])]] ]

\* matches.map(shapeEvent) on one event (lines 812, 885)
ShapeMatch ==
  /\ offerPresenter.pc = "matched"
  /\ offerPresenter' = [ pc |-> "shaped", event |-> offerPresenter.event,
                         shaped |-> shapeEvent(offerPresenter.event) ]
  /\ UNCHANGED <<stateMaps, store, handler, cityResolver, textNormalizer, wordBuilder, inflight, ingest, tables>>

NextOffers == ShapeMatch

SpecOffers == InitOffers /\ [][NextOffers]_vars

\* the place of the offer of a source in the shaped offers
ShapedPlace(source) ==
  CHOOSE k \in DOMAIN offerPresenter.shaped.offers :
    offerPresenter.shaped.offers[k].source = source

\* offers i and j of the event (in store order) have the same non-null
\* price_min, i with promo_percent 20 and j with promo_percent null
PromoPair(i, j) ==
  LET offers == offerPresenter.event.offers
  IN /\ offers[i].priceMin # NoVal
     /\ offers[i].priceMin = offers[j].priceMin
     /\ offers[i].promoPercent = <<20>>
     /\ offers[j].promoPercent = NoVal

\* C10 as stated: of two offers of an event with the same non-null price_min,
\* one with promo_percent 20 and one with promo_percent null, the one with
\* promo_percent 20 comes first in the shaped offers, whatever the store
\* order and the price_min.
C10_PromoSortsFirst ==
  offerPresenter.pc = "shaped" =>
    \A i, j \in DOMAIN offerPresenter.event.offers :
      PromoPair(i, j) =>
        ShapedPlace(offerPresenter.event.offers[i].source)
          < ShapedPlace(offerPresenter.event.offers[j].source)

\* C10 as amended: the offer with promo_percent 20 comes first when the
\* common price_min is at least 3 cents; for a price_min of 0, 1 or 2 cents
\* the rounded estimate equals the base price and the two offers keep their
\* store order.
C10_PromoSortsFirstFrom3Cents ==
  offerPresenter.pc = "shaped" =>
    \A i, j \in DOMAIN offerPresenter.event.offers :
      PromoPair(i, j) =>
        LET offers == offerPresenter.event.offers
        IN IF offers[i].priceMin[1] >= 3
           THEN ShapedPlace(offers[i].source) < ShapedPlace(offers[j].source)
           ELSE (ShapedPlace(offers[i].source) < ShapedPlace(offers[j].source)) <=> (i < j)

\* an offer with promo_percent 20 stored after an offer with the same
\* price_min and no promo was moved in front of it
C10_Witness ==
  /\ offerPresenter.pc = "shaped"
  /\ \E i, j \in DOMAIN offerPresenter.event.offers :
       /\ PromoPair(i, j)
       /\ j < i
       /\ offerPresenter.event.offers[i].priceMin[1] >= 3
       /\ ShapedPlace(offerPresenter.event.offers[i].source)
            < ShapedPlace(offerPresenter.event.offers[j].source)

\* what a shaped offer is sorted by: its est_after_promo when present, else
\* its base price_min, and NULL when it has neither
SortPrice(o) == Coalesce(o.est_after_promo, o.base_price_min)

\* C11 as stated: the shaped offers are in ascending order of est_after_promo
\* when present, else of the base price_min, and every offer that has neither
\* comes after every offer that has a price, for every price value.
C11_SortedNullPriceLast ==
  offerPresenter.pc = "shaped" =>
    LET offers == offerPresenter.shaped.offers
    IN \A k, l \in DOMAIN offers :
         k < l =>
           /\ (SortPrice(offers[k]) # NULL /\ SortPrice(offers[l]) # NULL)
                => NumberOf(SortPrice(offers[k])) <= NumberOf(SortPrice(offers[l]))
           /\ SortPrice(offers[k]) = NULL => SortPrice(offers[l]) = NULL

\* Math.round(x / 100) for an integer x: the nearest integer, a half rounds up
RoundDiv100(x) == (x + 50) \div 100

\* round(priceMin * (100 - promo) / 100) in whole cents, without a product
\* beyond 32 bits
ExactEstimate(priceMin, promo) ==
  (priceMin \div 100) * (100 - promo) + RoundDiv100((priceMin % 100) * (100 - promo))

\* the shaped offer of a stored offer of the event
ShapedOf(o) == offerPresenter.shaped.offers[ShapedPlace(o.source)]

PromoOrZero(o) == IF o.promoPercent = NoVal THEN 0 ELSE o.promoPercent[1]

\* C12 as stated: est_after_promo is null when price_min is null, and
\* otherwise shows round(price_min * (100 - promo_percent) / 100) cents with
\* two decimals, promo_percent null counting as 0 (10000 cents at 20 percent
\* shows "80.00"); with promo_percent in 0..100 it is never above price_min
\* and never negative.
C12_EstimateIsRoundedExactly ==
  offerPresenter.pc = "shaped" =>
    \A k \in DOMAIN offerPresenter.event.offers :
      LET o == offerPresenter.event.offers[k]
      IN IF o.priceMin = NoVal THEN ShapedOf(o).est_after_promo = NULL
         ELSE /\ ShapedOf(o).est_after_promo
                   = ToFixed2(ExactEstimate(o.priceMin[1], PromoOrZero(o)))
              /\ (o.priceMin = <<10000>> /\ o.promoPercent = <<20>>)
                   => ShapedOf(o).est_after_promo = Str("80.00")
              /\ PromoOrZero(o) \in 0..100
                   => /\ NumberOf(ShapedOf(o).est_after_promo) <= o.priceMin[1]
                      /\ NumberOf(ShapedOf(o).est_after_promo) >= 0

\* C13: the tickets_yn of a shaped event is true if any offer of the event
\* reports available, else false if any offer reports unavailable, else
\* null, as it is for an event without offers.
C13_Availability ==
  offerPresenter.pc = "shaped" =>
    LET offers == offerPresenter.event.offers
        flag == offerPresenter.shaped.tickets_yn
    IN IF \E k \in DOMAIN offers : offers[k].ticketsYn = <<TRUE>> THEN flag = <<TRUE>>
       ELSE IF \E k \in DOMAIN offers : offers[k].ticketsYn = <<FALSE>> THEN flag = <<FALSE>>
       ELSE flag = NoVal

\* an event whose first offer reports unavailable and whose second reports
\* available was shaped as available
C13_Witness ==
  /\ offerPresenter.pc = "shaped"
  /\ Len(offerPresenter.event.offers) >= 2
  /\ offerPresenter.event.offers[1].ticketsYn = <<FALSE>>
  /\ offerPresenter.event.offers[2].ticketsYn = <<TRUE>>
  /\ offerPresenter.shaped.tickets_yn = <<TRUE>>

(***************************************************************************)
(* The Text Normalizer on its own                                           *)
(***************************************************************************)

\* the longest text given to normText in the model
MaxTextLen == 3

\* a letter, a capital, a space, a punctuation mark and an accented letter
TextChars == { "a", "B", " ", "!", "e_acute" }

\* null, the empty string and every text of the characters above
TextInputs == { NULL } \cup UNION { [1..n -> TextChars] : n \in 0..MaxTextLen }

InitText ==
  /\ stateMaps = loadStateMaps(STATE_CSV)
  /\ store = StoreRows
  /\ handler = IdleHandler
  /\ tables = NoTables
  /\ ingest = NoIngest
  /\ inflight = NoneInFlight
  /\ wordBuilder = IdleWordBuilder
  /\ cityResolver = IdleCityResolver
  /\ offerPresenter = IdleOfferPresenter
  /\ \E s \in TextInputs : textNormalizer = [pc |-> "input", input |-> s]

\* normText(s), as in lines 316, 386, 722
NormalizeText ==
  /\ textNormalizer.pc = "input"
  /\ textNormalizer' = [ pc |-> "normalized", input |-> textNormalizer.input,
                         once |-> normText(textNormalizer.input) ]
  /\ UNCHANGED <<stateMaps, store, handler, cityResolver, offerPresenter, wordBuilder, inflight, ingest, tables>>

\* normText of a text that normText returned, as in line 320
NormalizeAgain ==
  /\ textNormalizer.pc = "normalized"
  /\ textNormalizer' = [ pc |-> "renormalized", input |-> textNormalizer.input,
                         once |-> textNormalizer.once,
                         twice |-> normText(textNormalizer.once) ]
  /\ UNCHANGED <<stateMaps, store, handler, cityResolver, offerPresenter, wordBuilder, inflight, ingest, tables>>

NextText == NormalizeText \/ NormalizeAgain

SpecText == InitText /\ [][NextText]_vars

\* C14 as stated: normText is idempotent on every input, null, empty,
\* whitespace-only and punctuation-only texts included:
\* normText(normText(x)) = normText(x).
C14_NormTextIdempotent ==
  textNormalizer.pc = "renormalized" => textNormalizer.twice = textNormalizer.once

\* the number of store queries of the request that have settled
settled == Len(handler.log)

\* POST /match with a store that answers every query it is sent, with rows
\* or with a failure: prisma.event.findMany is awaited and its promise
\* settles; each settling adds its entry to the log
SpecAnswering == Init /\ [][Next]_vars /\ WF_settled(QueryFails \/ QueryReturns)

\* the number of store queries a handler has issued in a mode so far
QueriesIn(H, mode) ==
  Cardinality({k \in DOMAIN H.log : H.log[k].mode = mode})
    + (IF H.pc = "awaiting" /\ H.mode = mode THEN 1 ELSE 0)

\* the bound of one mode for n performer tokens
QueryBound(n) == 2 * (2 * n - 1)

\* at most one query is outstanding, a response is there exactly when the
\* handler has returned, and each mode stays within its bound
BoundedQueries ==
  /\ (handler.pc = "awaiting") <=> (handler.pending # NoQuery)
  /\ (handler.pc = "responded") <=> (handler.response.status # NoResponse.status)
  /\ Len(IssuedQueries(handler)) - Len(handler.log) \in {0, 1}
  /\ IF Prepared /\ ~MissingRequiredFields(handler.c)
     THEN /\ QueriesIn(handler, "exact") <= QueryBound(Len(handler.c.performerWords))
          /\ QueriesIn(handler, "upcoming") <= QueryBound(Len(handler.c.performerWords))
     ELSE IssuedQueries(handler) = <<>>

\* a step issues at most one query, and a further one only when the one
\* before has returned; a response, once given, is the only one
OneQueryAtATime ==
  /\ IsPrefix(IssuedQueries(handler), IssuedQueries(handler'))
  /\ Len(IssuedQueries(handler')) <= Len(IssuedQueries(handler)) + 1
  /\ (handler.pc = "awaiting" /\ handler'.pc = "awaiting")
       => /\ Len(handler'.log) = Len(handler.log) + 1
          /\ handler'.log[Len(handler'.log)].query = handler.pending
          /\ ~handler'.log[Len(handler'.log)].failed
  /\ handler.response.status # NoResponse.status => handler' = handler

\* C26: every /match request ends with exactly one response after a bounded
\* sequence of store queries: at most one query of the request is outstanding
\* at any time, the next being issued only after the previous has returned,
\* and with n performer tokens at most 2*(2n-1) queries are issued in exact
\* mode and at most 2*(2n-1) in upcoming mode.
C26_OneResponseAfterBoundedQueries ==
  /\ []BoundedQueries
  /\ [][OneQueryAtATime]_vars
  /\ (handler.pc # "idle") ~> Responded

\* a request of two performer tokens answered after both modes ran to their
\* bound of six queries each, none of them with a result
C26_Witness ==
  /\ Answered
  /\ Len(handler.c.performerWords) = 2
  /\ QueriesIn(handler, "exact") = QueryBound(2)
  /\ QueriesIn(handler, "upcoming") = QueryBound(2)
  /\ handler.response.reason = "no_upcoming_in_city"

(***************************************************************************)
(* The Performer Query Builder on its own                                   *)
(***************************************************************************)

\* the longest token list in the model
MaxWords == 3

\* tokens of two, three, four and five characters, a stopword and a year
WordTokens == { Str("u2"), Str("abc"), Str("zach"), Str("bryan"), Str("the"), Str("2026") }

TokenLists == UNION { [1..n -> WordTokens] : n \in 0..MaxWords }

InitWords ==
  /\ stateMaps = loadStateMaps(STATE_CSV)
  /\ store = StoreRows
  /\ handler = IdleHandler
  /\ tables = NoTables
  /\ ingest = NoIngest
  /\ inflight = NoneInFlight
  /\ cityResolver = IdleCityResolver
  /\ offerPresenter = IdleOfferPresenter
  /\ textNormalizer = IdleTextNormalizer
  /\ \E words \in TokenLists, mode \in {"exact", "upcoming"} :
       wordBuilder = [ pc |-> "words", words |-> words, mode |-> mode, variants |-> <<>>,
                       vi |-> 0, queried |-> <<>> ]

\* lines 765 and 825: the variants of the mode
BuildVariants ==
  /\ wordBuilder.pc = "words"
  /\ wordBuilder' = [wordBuilder EXCEPT
                       !.pc = "built",
                       !.variants = buildWordVariants(wordBuilder.words, wordBuilder.mode)]
  /\ UNCHANGED <<stateMaps, store, handler, cityResolver, offerPresenter, textNormalizer, inflight, ingest, tables>>

\* lines 767 and 829: the loop reaches its next variant, the store having
\* nothing for the ones before, and queries the store with its words
QueryVariant ==
  /\ wordBuilder.pc = "built"
  /\ wordBuilder.vi < Len(wordBuilder.variants)
  /\ wordBuilder' = [wordBuilder EXCEPT
                       !.vi = wordBuilder.vi + 1,
                       !.queried = Append(wordBuilder.queried,
                                          buildPerformerWordClauses(
                                            wordBuilder.variants[wordBuilder.vi + 1]))]
  /\ UNCHANGED <<stateMaps, store, handler, cityResolver, offerPresenter, textNormalizer, inflight, ingest, tables>>

NextWords == BuildVariants \/ QueryVariant

SpecWords == InitWords /\ [][NextWords]_vars

\* C16: for a token list that is not empty, in both modes, the first variant
\* of buildWordVariants is the full token list and no variant is empty; for
\* the empty token list there is no variant.
C16_FullListFirst ==
  wordBuilder.pc = "built" =>
    IF wordBuilder.words = <<>> THEN wordBuilder.variants = <<>>
    ELSE /\ wordBuilder.variants # <<>>
         /\ Head(wordBuilder.variants) = wordBuilder.words
         /\ \A k \in DOMAIN wordBuilder.variants : wordBuilder.variants[k] # <<>>

\* the variants of zach bryan in exact mode are the two words, then each alone
C16_Witness ==
  /\ wordBuilder.pc = "built"
  /\ wordBuilder.mode = "exact"
  /\ wordBuilder.words = <<Str("zach"), Str("bryan")>>
  /\ wordBuilder.variants
       = << <<Str("zach"), Str("bryan")>>, <<Str("zach")>>, <<Str("bryan")>> >>

\* the rule of a single token in a mode: no stopword and no year, three
\* characters at least unless the mode is exact, four in upcoming mode
SingleTokenAllowed(t, mode) ==
  /\ ~isStopWord(t)
  /\ ~isYearToken(t)
  /\ mode # "exact" => Len(t) >= 3
  /\ mode = "upcoming" => Len(t) >= 4

\* C17 as stated: every single-token variant of buildWordVariants, for every
\* token list, one of a single token included, obeys the rule of its mode,
\* and no upcoming-mode query has a single token shorter than 4 characters.
C17_SingleTokenRule ==
  wordBuilder.pc = "built" =>
    /\ \A k \in DOMAIN wordBuilder.variants :
         Len(wordBuilder.variants[k]) = 1
           => SingleTokenAllowed(wordBuilder.variants[k][1], wordBuilder.mode)
    /\ \A q \in DOMAIN wordBuilder.queried :
         (wordBuilder.mode = "upcoming" /\ Len(wordBuilder.queried[q]) = 1)
           => Len(wordBuilder.queried[q][1].performerNorm.contains) >= 4

\* C17 as amended: the rule holds for every single-token variant after the
\* first, that is for the prefixes and suffixes of one token; the first
\* variant is the full token list whatever its tokens, so an upcoming-mode
\* query has a single token shorter than 4 characters, or a stopword or a
\* year, only when that token is the whole token list.
C17_SingleTokenRuleBelowFull ==
  wordBuilder.pc = "built" =>
    /\ \A k \in DOMAIN wordBuilder.variants :
         (k > 1 /\ Len(wordBuilder.variants[k]) = 1)
           => SingleTokenAllowed(wordBuilder.variants[k][1], wordBuilder.mode)
    /\ \A q \in DOMAIN wordBuilder.queried :
         (wordBuilder.mode = "upcoming" /\ Len(wordBuilder.queried[q]) = 1)
           => \/ /\ Len(wordBuilder.queried[q][1].performerNorm.contains) >= 4
                 /\ SingleTokenAllowed(wordBuilder.queried[q][1].performerNorm.contains,
                                       "upcoming")
              \/ /\ q = 1
                 /\ wordBuilder.words = <<wordBuilder.queried[q][1].performerNorm.contains>>

\* in upcoming mode the variants of abc zach bryan were all queried: bryan
\* alone was, abc alone was not
C17_Witness ==
  /\ wordBuilder.pc = "built"
  /\ wordBuilder.mode = "upcoming"
  /\ wordBuilder.words = <<Str("abc"), Str("zach"), Str("bryan")>>
  /\ wordBuilder.vi = Len(wordBuilder.variants)
  /\ buildPerformerWordClauses(<<Str("bryan")>>) \in Range(wordBuilder.queried)
  /\ buildPerformerWordClauses(<<Str("abc")>>) \notin Range(wordBuilder.queried)

\* the candidates of buildWordVariants in the order of its loops: the full
\* list, the strict prefixes from the longest to the shortest, the strict
\* suffixes from the one dropping a single token to the one dropping all but
\* the last
VariantCandidates(w) ==
  <<w>> \o [k \in 1..(Len(w) - 1) |-> SubSeq(w, 1, Len(w) - k)]
        \o [i \in 1..(Len(w) - 1) |-> SubSeq(w, i + 1, Len(w))]

\* the first position of v in a list it occurs in
FirstPosition(list, v) ==
  CHOOSE k \in DOMAIN list :
    /\ list[k] = v
    /\ \A j \in 1..(k - 1) : list[j] # v

\* C25: for a token list of n >= 1 tokens the output of buildWordVariants
\* has no duplicate and is an order-preserving sub-list of the full list, the
\* strict prefixes of lengths n-1 down to 1, the strict suffixes dropping 1 to
\* n-1 leading tokens; every prefix and suffix of several tokens is present,
\* the list has at most 2n-1 entries, and a variant that is both a prefix and
\* a suffix stands once, at its first position among the candidates.
C25_VariantsAreOrderedSubList ==
  (wordBuilder.pc = "built" /\ wordBuilder.words # <<>>) =>
    LET n == Len(wordBuilder.words)
        cands == VariantCandidates(wordBuilder.words)
        out == wordBuilder.variants
    IN /\ Len(cands) = 2 * n - 1
       /\ Len(out) <= 2 * n - 1
       /\ \A k \in DOMAIN out : out[k] \in Range(cands)
       /\ \A j, k \in DOMAIN out :
            j < k => FirstPosition(cands, out[j]) < FirstPosition(cands, out[k])
       /\ \A j, k \in DOMAIN out : j # k => out[j] # out[k]
       /\ \A c \in DOMAIN cands : Len(cands[c]) > 1 => cands[c] \in Range(out)

\* zach zach zach in exact mode: the prefix and the suffix of two tokens are
\* one variant, the prefix and the suffix of one token another
C25_Witness ==
  /\ wordBuilder.pc = "built"
  /\ wordBuilder.mode = "exact"
  /\ wordBuilder.words = <<Str("zach"), Str("zach"), Str("zach")>>
  /\ wordBuilder.variants
       = << <<Str("zach"), Str("zach"), Str("zach")>>,
            <<Str("zach"), Str("zach")>>,
            <<Str("zach")>> >>

(***************************************************************************)
(* Requests in flight together                                              *)
(***************************************************************************)

\* the number of requests in flight together
MaxRequests == 2

Body(performer_query, city, state, date_day, time_24) ==
  [ performer_query |-> performer_query, raw_title |-> NULL, city |-> city, state |-> state,
    date_day |-> date_day, time_24 |-> time_24 ]

\* requests answered after one query, after two, after three and without
\* any, and a body that is rejected
ConcurrentRequests ==
  { Body(Str("Zach Bryan"), Str("Austin"), Str("TX"), Str("2026-12-01"), Str("19:30")),
    Body(Str("Zach Bryan"), Str("Austin"), NULL, NULL, NULL),
    Body(Str("Bryan Adams Tour 2026"), Str("Austin"), NULL, NULL, NULL),
    Body(Str("The Hondo Rodeo Fest - 3 Day Package"), Str("Ft Worth"), Str("Texas"),
         Str("2026-12-01"), NULL),
    Body(Str("Zach Bryan"), NULL, NULL, NULL, NULL),
    BadBody }

\* the tables as loadStateMaps() leaves them at start-up (line 375)
StartupMaps == loadStateMaps(STATE_CSV)

InitConcurrent ==
  /\ stateMaps = StartupMaps
  /\ store = StoreRows
  /\ handler = IdleHandler
  /\ tables = NoTables
  /\ ingest = NoIngest
  /\ cityResolver = IdleCityResolver
  /\ offerPresenter = IdleOfferPresenter
  /\ textNormalizer = IdleTextNormalizer
  /\ wordBuilder = IdleWordBuilder
  /\ inflight = [handlers |-> [i \in 1..MaxRequests |-> IdleHandler], overlapped |-> {}]

\* another request is waiting for the store
OthersAwaiting(i) ==
  \E j \in DOMAIN inflight.handlers : j # i /\ inflight.handlers[j].pc = "awaiting"

Awaited_OfAnyRequest(i) ==
  findMany(store,
           inflight.handlers[CHOOSE j \in DOMAIN inflight.handlers :
                               inflight.handlers[j].pc = "awaiting"].pending)

\* what the awaited findMany of request i resolves to: the rows of its own
\* query, which is a local of its call of the handler
Awaited(i) == findMany(store, inflight.handlers[i].pending)

\* POST /match arrives while other requests are in flight
ReceiveNext ==
  \E i \in DOMAIN inflight.handlers, body \in ConcurrentRequests :
    /\ inflight.handlers[i].pc = "idle"
    /\ inflight' = [inflight EXCEPT !.handlers[i] = OnRequest(body, stateMaps)]
    /\ UNCHANGED <<stateMaps, store, handler, cityResolver, offerPresenter, textNormalizer, wordBuilder, ingest, tables>>

\* the store answers the query of one of the requests
QueryReturnsTo ==
  \E i \in DOMAIN inflight.handlers :
    /\ inflight.handlers[i].pc = "awaiting"
    /\ inflight' = [inflight EXCEPT
                      !.handlers[i] = OnResult(inflight.handlers[i], Awaited(i)),
                      !.overlapped = IF OthersAwaiting(i) THEN @ \cup {i} ELSE @]
    /\ UNCHANGED <<stateMaps, store, handler, cityResolver, offerPresenter, textNormalizer, wordBuilder, ingest, tables>>

\* the query of one of the requests fails
QueryFailsTo ==
  \E i \in DOMAIN inflight.handlers :
    /\ inflight.handlers[i].pc = "awaiting"
    /\ inflight' = [inflight EXCEPT !.handlers[i] = OnFailure(inflight.handlers[i])]
    /\ UNCHANGED <<stateMaps, store, handler, cityResolver, offerPresenter, textNormalizer, wordBuilder, ingest, tables>>

NextConcurrent == ReceiveNext \/ QueryReturnsTo \/ QueryFailsTo

SpecConcurrent == InitConcurrent /\ [][NextConcurrent]_vars

\* the response of each request of the model when it is run alone
AloneResponses ==
  { <<body, RunAlone(body, StartupMaps, StoreRows).response>> : body \in ConcurrentRequests }

\* no query of the request has failed
Undisturbed(H) == \A k \in DOMAIN H.log : ~H.log[k].failed

MaxRuns == 2

\* the source argument of a run: the four known sources and one the Source
\* enum of the database does not have
RunSources == {"geturtix", "tn", "tl", "sbs", "stubhub"}

\* values of the enum "Source"
SourceEnum == {SOURCES[k] : k \in DOMAIN SOURCES}

IngestEvents == {Str("e1")}

\* a row main() pushes on a batch, its prices in cents
FeedRow(eventId, price) ==
  [eventId |-> Str(eventId), url |-> Str("https://feed.example/") \o Str(eventId),
   priceMin |-> <<price>>, priceMax |-> <<price>>, ticketsYn |-> NoVal]

\* the feed files of the model: a source and the rows of its batch
Feeds ==
  { <<"geturtix", <<FeedRow("e1", 6900)>>>>,
    <<"geturtix", <<FeedRow("e1", 13297)>>>>,
    <<"geturtix", <<FeedRow("e1", 6900), FeedRow("e1", 13297)>>>>,
    <<"tn", <<FeedRow("e1", 6900)>>>>,
    <<"tn", <<FeedRow("e1", 13297)>>>>,
    <<"tl", <<FeedRow("e1", 6900)>>>>,
    <<"sbs", <<FeedRow("e1", 6900)>>>>,
    <<"stubhub", <<FeedRow("e1", 6900)>>>> }

IdleRun == [pc |-> "idle", source |-> "", rows |-> <<>>, found |-> FALSE, writes |-> <<>>]

\* the unique key of an offer
OfferKey(o) == <<o.source, o.eventId>>

\* the create branch of the offer upsert
CreatedOffer(source, r) ==
  [source |-> source, eventId |-> r.eventId, url |-> r.url,
   priceMin |-> r.priceMin, priceMax |-> r.priceMax,
   ticketsYn |-> r.ticketsYn, promoPercent |-> NoVal]

\* the update branch of the offer upsert: a null ticketsYn of the feed keeps
\* the stored one
UpdatedOffer(o, r) ==
  [o EXCEPT !.url = r.url, !.priceMin = r.priceMin, !.priceMax = r.priceMax,
            !.ticketsYn = IF r.ticketsYn = NoVal THEN @ ELSE r.ticketsYn]

\* the row after a write of a transaction that updates the offer of a key
UpdatedBy(o, w) ==
  IF OfferKey(o) = <<w.source, w.row.eventId>> THEN UpdatedOffer(o, w.row) ELSE o

\* the table, a bag of rows, after one write of a transaction
ApplyWrite(offers, w) ==
  IF w.kind = "create" THEN offers (+) SetToBag({CreatedOffer(w.source, w.row)})
  ELSE [n \in {UpdatedBy(o, w) : o \in BagToSet(offers)} |->
          BagCardinality([o \in {x \in BagToSet(offers) : UpdatedBy(x, w) = n} |-> offers[o]])]

RECURSIVE ApplyWrites(_, _)
ApplyWrites(offers, writes) ==
  IF writes = <<>> THEN offers
  ELSE ApplyWrites(ApplyWrite(offers, Head(writes)), Tail(writes))

\* the table as the transaction of a run sees it: what is committed and what
\* the transaction wrote itself
TxView(run) == ApplyWrites(ingest.offers, run.writes)

HoldsKey(offers, key) == \E o \in BagToSet(offers) : OfferKey(o) = key

InProgress(run) == run.pc \in {"find", "write", "commit"}

\* the key of the row the run is at
RowKey(run) == <<run.source, Head(run.rows).eventId>>

\* another transaction in progress wrote the key and has not ended
LockedByOther(r, key) ==
  \E q \in DOMAIN ingest.runs :
    /\ q # r
    /\ InProgress(ingest.runs[q])
    /\ \E k \in DOMAIN ingest.runs[q].writes :
         <<ingest.runs[q].writes[k].source, ingest.runs[q].writes[k].row.eventId>> = key

\* the index Offer_source_eventId_key refuses the insert, never
UniqueIndexRefuses_NoIndex(key) == FALSE

\* the index Offer_source_eventId_key refuses the insert of a key the table
\* holds
UniqueIndexRefuses(key) == HoldsKey(ingest.offers, key)

InitIngest ==
  /\ stateMaps = loadStateMaps(STATE_CSV)
  /\ store = <<>>
  /\ handler = IdleHandler
  /\ tables = NoTables
  /\ cityResolver = IdleCityResolver
  /\ offerPresenter = IdleOfferPresenter
  /\ textNormalizer = IdleTextNormalizer
  /\ wordBuilder = IdleWordBuilder
  /\ inflight = NoneInFlight
  /\ ingest = [offers |-> EmptyBag, runs |-> [r \in 1..MaxRuns |-> IdleRun]]

IngestOthers ==
  <<stateMaps, store, handler, cityResolver, offerPresenter, textNormalizer, wordBuilder,
    inflight, tables>>

\* node src/ingest.js <source> <file>: flushBatch opens the transaction of a
\* batch
StartRun ==
  \E r \in DOMAIN ingest.runs, feed \in Feeds :
    /\ ingest.runs[r].pc = "idle"
    /\ ingest' = [ingest EXCEPT !.runs[r] =
                    [IdleRun EXCEPT !.pc = "find", !.source = feed[1], !.rows = feed[2]]]
    /\ UNCHANGED IngestOthers

\* the upsert looks the key up; a source the enum does not have is refused
FindOffer ==
  \E r \in DOMAIN ingest.runs :
    /\ ingest.runs[r].pc = "find"
    /\ ingest' = [ingest EXCEPT !.runs[r] =
                    IF ingest.runs[r].source \notin SourceEnum THEN IdleRun
                    ELSE [ingest.runs[r] EXCEPT
                            !.pc = "write",
                            !.found = HoldsKey(TxView(ingest.runs[r]), RowKey(ingest.runs[r]))]]
    /\ UNCHANGED IngestOthers

\* the upsert updates the row it found or inserts one; a refused insert
\* rolls the batch back
WriteOffer ==
  \E r \in DOMAIN ingest.runs :
    /\ ingest.runs[r].pc = "write"
    /\ ~LockedByOther(r, RowKey(ingest.runs[r]))
    /\ ingest' = [ingest EXCEPT !.runs[r] =
         IF ~ingest.runs[r].found /\ UniqueIndexRefuses(RowKey(ingest.runs[r])) THEN IdleRun
         ELSE [ingest.runs[r] EXCEPT
                 !.writes = Append(@, [kind |-> IF ingest.runs[r].found THEN "update" ELSE "create",
                                       source |-> ingest.runs[r].source,
                                       row |-> Head(ingest.runs[r].rows)]),
                 !.rows = Tail(@),
                 !.pc = IF Tail(ingest.runs[r].rows) = <<>> THEN "commit" ELSE "find"]]
    /\ UNCHANGED IngestOthers

\* the transaction of the batch commits
CommitBatch ==
  \E r \in DOMAIN ingest.runs :
    /\ ingest.runs[r].pc = "commit"
    /\ ingest' = [ingest EXCEPT !.offers = ApplyWrites(@, ingest.runs[r].writes),
                                !.runs[r] = IdleRun]
    /\ UNCHANGED IngestOthers

\* the run ends before its batch is committed (the process is stopped, the
\* database ends the transaction): nothing of the batch is kept
AbortRun ==
  \E r \in DOMAIN ingest.runs :
    /\ InProgress(ingest.runs[r])
    /\ ingest' = [ingest EXCEPT !.runs[r] = IdleRun]
    /\ UNCHANGED IngestOthers

NextIngest == StartRun \/ FindOffer \/ WriteOffer \/ CommitBatch \/ AbortRun

SpecIngest == InitIngest /\ [][NextIngest]_vars

\* the number of offers of the table with the key
OffersWithKey(offers, key) ==
  BagCardinality([o \in {x \in BagToSet(offers) : OfferKey(x) = key} |-> offers[o]])

OffersOfEvent(offers, e) ==
  BagCardinality([o \in {x \in BagToSet(offers) : x.eventId = e} |-> offers[o]])

\* the last row a batch wrote for the key
RECURSIVE LastWritten(_, _)
LastWritten(writes, key) ==
  IF <<writes[Len(writes)].source, writes[Len(writes)].row.eventId>> = key
    THEN writes[Len(writes)].row
  ELSE LastWritten(SubSeq(writes, 1, Len(writes) - 1), key)

\* C20: whatever runs of ingestion have been made and however their
\* statements interleave, the Offer table holds at most one offer for each
\* pair of source and event, so an event has at most four offers; and a
\* batch that commits a row for a pair the table already has an offer for
\* leaves the number of offers of the pair at one, that offer now carrying
\* the url and the prices of the row.
C20_OneOfferPerSourceAndEvent ==
  /\ [](\A source \in RunSources, e \in IngestEvents :
          /\ OffersWithKey(ingest.offers, <<source, e>>) <= 1
          /\ OffersOfEvent(ingest.offers, e) <= 4)
  /\ [][\A r \in DOMAIN ingest.runs :
          (ingest.runs[r].pc = "commit" /\ ingest'.offers # ingest.offers
             /\ ingest'.runs[r].pc = "idle")
          => \A w \in DOMAIN ingest.runs[r].writes :
               LET key == <<ingest.runs[r].writes[w].source, ingest.runs[r].writes[w].row.eventId>>
                   fed == LastWritten(ingest.runs[r].writes, key)
               IN  /\ OffersWithKey(ingest'.offers, key) = 1
                   /\ \A o \in BagToSet(ingest'.offers) :
                        OfferKey(o) = key
                          => /\ o.url = fed.url
                             /\ o.priceMin = fed.priceMin
                             /\ o.priceMax = fed.priceMax]_vars

\* the table holds an offer of each of the four sources for an event, the
\* one of "tn" with a price a second run of "tn" gave it, while another run
\* is at a row of that same key which it looked up
C20_Witness ==
  /\ BagCardinality(ingest.offers) = 4
  /\ \E o \in BagToSet(ingest.offers) :
       /\ o.source = "tn"
       /\ o.priceMin = <<13297>>
  /\ ingest.runs[1].pc = "write"
  /\ ingest.runs[1].source = "tn"
  /\ ingest.runs[1].found
  /\ Head(ingest.runs[1].rows).priceMin = <<6900>>
  /\ InProgress(ingest.runs[2])

(***************************************************************************)
(* Ingestion: the rows of the tables.  main() reads a feed row, cleans its *)
(* cells and pushes it on the batch; flushBatch upserts, for each row of   *)
(* the batch, the Event, the Performer, their EventPerformer link and the  *)
(* Offer of the source.  The feeds of this specification are ingested one  *)
(* after the other, and /match requests are served from what they stored.  *)
(***************************************************************************)

\* the largest number of feed rows ingested in the model
MaxFeedRows == 3

MASTER_EVENT_SOURCE == "geturtix"

\* /\r?\n/g
RE_NEWLINE == RxSeq(<<RxOpt(RxSet({"cr"})), RxSet({"nl"})>>)

\* the quote characters " and '
Quotes == {"dquote", "'"}

\* t.slice(1, -1).trim() when t starts and ends with the same quote
Unwrapped(t) ==
  IF t # <<>> /\ t[1] \in Quotes /\ t[Len(t)] = t[1]
  THEN Trim(SubSeq(t, 2, Len(t) - 1)) ELSE t

cleanDisplayText(s) ==
  IF s = NULL THEN <<>>
  ELSE Trim(CollapseWS(Unwrapped(Trim(CollapseWS(RxReplaceAll(RE_NEWLINE, s, <<" ">>))))))

\* the row main() pushes on the batch for a feed row that is not skipped:
\* the text cells cleaned, the date and the prices as parsed
BatchRow(eventId, performer, event, city, state, venue, ymd, time24, cents) ==
  [ eventId |-> cleanDisplayText(Str(eventId)),
    performerId |-> cleanDisplayText(Str("p1")),
    performerName |-> cleanDisplayText(performer),
    eventName |-> cleanDisplayText(event),
    city |-> cleanDisplayText(city),
    state |-> cleanDisplayText(state),
    country |-> cleanDisplayText(Str("US")),
    venue |-> cleanDisplayText(venue),
    dateDay |-> <<DateUTC(ToNumber(SubSeq(Str(ymd), 1, 4)), ToNumber(SubSeq(Str(ymd), 6, 7)) - 1,
                          ToNumber(SubSeq(Str(ymd), 9, 10)))>>,
    time24 |-> time24,
    datetimeRaw |-> cleanDisplayText(Str(ymd)),
    url |-> cleanDisplayText(Str("https://feed.example/") \o Str(eventId)),
    priceMin |-> <<cents>>, priceMax |-> <<cents>>, ticketsYn |-> NoVal ]

\* the rows of the feeds of the model
BatchRows ==
  { BatchRow("e1", Str("Zach Bryan"), Str("Zach Bryan"), Str("Austin"), Str("TX"),
             <<"dquote">> \o Str("Moody Center ") \o <<"dquote">>, "2026-12-01", Str("19:30"), 6900),
    BatchRow("e1", Str("Zach Bryan"), Str("Zach Bryan Live"), Str("!!!"), Str("Texas"),
             Str(""), "2026-12-01", Str("20:00"), 13297),
    BatchRow("e1", Str(""), Str(""), Str(""), Str(""), Str(""), "2026-12-01", NULL, 6900),
    BatchRow("e2", Str("Zach Bryan"), Str("Zach Bryan"), Str("Austin"), Str("Texas"),
             Str("Moody Center"), "2026-12-01", Str("19:30"), 6900),
    BatchRow("e2", Str("Zach Bryan"), Str("Zach Bryan"), Str("Austin"), Str("ZZ"),
             Str("'Moody Center'"), "2026-12-05", NULL, 6900) }

FeedSources == {"geturtix", "tn", "sbs"}

\* v || undefined in the data of an update: a falsy value keeps the column
OrKeep(v, old) == IF Falsy(v) THEN old ELSE v

\* the create branch of both Event upserts
CreatedEvent(r, cityNorm, stateNorm, venueNorm) ==
  [ id |-> r.eventId, eventName |-> OrNull(r.eventName), dateDay |-> r.dateDay,
    time24 |-> r.time24, datetimeRaw |-> r.datetimeRaw,
    city |-> OrNull(r.city), cityNorm |-> OrNull(cityNorm),
    state |-> OrNull(r.state), stateNorm |-> OrNull(stateNorm),
    country |-> OrNull(r.country),
    venue |-> OrNull(r.venue), venueNorm |-> OrNull(venueNorm) ]

\* the update branch of upsertEventFromMasterTx
UpdatedEvent(e, r, cityNorm, stateNorm, venueNorm) ==
  [ e EXCEPT !.eventName = OrKeep(r.eventName, @), !.dateDay = r.dateDay,
             !.time24 = r.time24, !.datetimeRaw = r.datetimeRaw,
             !.city = OrKeep(r.city, @), !.cityNorm = OrKeep(cityNorm, @),
             !.state = OrKeep(r.state, @), !.stateNorm = OrKeep(stateNorm, @),
             !.country = OrKeep(r.country, @),
             !.venue = OrKeep(r.venue, @), !.venueNorm = OrKeep(venueNorm, @) ]

HasId(rows, id) == \E k \in DOMAIN rows : rows[k].id = id

ensureEventExistsIfMissingTx_Overwrites(events, r, cityNorm, stateNorm, venueNorm) ==
  IF HasId(events, r.eventId)
  THEN [k \in DOMAIN events |->
          IF events[k].id = r.eventId
          THEN UpdatedEvent(events[k], r, cityNorm, stateNorm, venueNorm) ELSE events[k]]
  ELSE Append(events, CreatedEvent(r, cityNorm, stateNorm, venueNorm))

\* update: {} leaves the row as it is
ensureEventExistsIfMissingTx(events, r, cityNorm, stateNorm, venueNorm) ==
  IF HasId(events, r.eventId) THEN events
  ELSE Append(events, CreatedEvent(r, cityNorm, stateNorm, venueNorm))

upsertEventFromMasterTx(events, r, cityNorm, stateNorm, venueNorm) ==
  IF HasId(events, r.eventId)
  THEN [k \in DOMAIN events |->
          IF events[k].id = r.eventId
          THEN UpdatedEvent(events[k], r, cityNorm, stateNorm, venueNorm) ELSE events[k]]
  ELSE Append(events, CreatedEvent(r, cityNorm, stateNorm, venueNorm))

\* const cleanR = { ...r, city: cleanDisplayText(r.city), ... }
CleanR(r) ==
  [ r EXCEPT !.city = cleanDisplayText(@), !.state = cleanDisplayText(@),
             !.venue = cleanDisplayText(@), !.eventName = cleanDisplayText(@) ]

\* tx.performer.upsert
UpsertPerformer(performers, r) ==
  IF HasId(performers, r.performerId)
  THEN [k \in DOMAIN performers |->
          IF performers[k].id = r.performerId
          THEN [performers[k] EXCEPT !.name = OrKeep(r.performerName, @),
                                     !.performerNorm = OrKeep(normText(r.performerName), @)]
          ELSE performers[k]]
  ELSE Append(performers, [id |-> r.performerId, name |-> OrNull(r.performerName),
                           performerNorm |-> OrNull(normText(r.performerName))])

\* tx.eventPerformer.upsert
UpsertJoin(joins, r) ==
  IF \E k \in DOMAIN joins : joins[k] = [eventId |-> r.eventId, performerId |-> r.performerId]
  THEN joins
  ELSE Append(joins, [eventId |-> r.eventId, performerId |-> r.performerId])

\* tx.offer.upsert
UpsertOffer(offers, source, r) ==
  IF \E k \in DOMAIN offers : OfferKey(offers[k]) = <<source, r.eventId>>
  THEN [k \in DOMAIN offers |->
          IF OfferKey(offers[k]) = <<source, r.eventId>>
          THEN UpdatedOffer(offers[k], r) ELSE offers[k]]
  ELSE Append(offers, CreatedOffer(source, r))

\* the body of the loop of flushBatch for a row of the batch
FlushedRow(T, source, r) ==
  [ events |-> IF source = MASTER_EVENT_SOURCE
               THEN upsertEventFromMasterTx(T.events, CleanR(r), normText(r.city),
                                            normText(r.state), normText(r.venue))
               ELSE ensureEventExistsIfMissingTx(T.events, r, normText(r.city),
                                                 normText(r.state), normText(r.venue)),
    performers |-> UpsertPerformer(T.performers, r),
    joins |-> UpsertJoin(T.joins, r),
    offers |-> UpsertOffer(T.offers, source, r),
    source |-> source,
    rows |-> T.rows + 1 ]

\* an Event with its performers and offers, as include: { performers:
\* { include: { performer: true } }, offers: true } returns it
Included(T, e) ==
  [ id |-> e.id, eventName |-> e.eventName, dateDay |-> e.dateDay, time24 |-> e.time24,
    city |-> e.city, cityNorm |-> e.cityNorm, state |-> e.state, stateNorm |-> e.stateNorm,
    venue |-> e.venue,
    performers |->
      LET linked == SelectSeq(T.joins, LAMBDA j : j.eventId = e.id)
      IN [k \in DOMAIN linked |->
            LET pf == T.performers[CHOOSE i \in DOMAIN T.performers :
                                     T.performers[i].id = linked[k].performerId]
            IN [name |-> pf.name, performerNorm |-> pf.performerNorm]],
    offers |-> SelectSeq(T.offers, LAMBDA o : o.eventId = e.id) ]

\* the rows of the Event table as the queries of /match read them
StoredRows(T) == [k \in DOMAIN T.events |-> Included(T, T.events[k])]

\* the request of a user who looks for a stored event with the texts the
\* feed gave for it
RequestFor(row) ==
  Body(IF row.performers = <<>> THEN NULL ELSE row.performers[1].name,
       row.city, row.state, ISODay(row.dateDay), NULL)

InitFeed ==
  /\ stateMaps = StartupMaps
  /\ store = <<>>
  /\ handler = IdleHandler
  /\ cityResolver = IdleCityResolver
  /\ offerPresenter = IdleOfferPresenter
  /\ textNormalizer = IdleTextNormalizer
  /\ wordBuilder = IdleWordBuilder
  /\ inflight = NoneInFlight
  /\ ingest = NoIngest
  /\ tables = NoTables

\* flushBatch writes the next row of the batch of a run
FlushRow ==
  \E source \in FeedSources, r \in BatchRows :
    /\ handler = IdleHandler
    /\ tables.rows < MaxFeedRows
    /\ tables' = FlushedRow(tables, source, r)
    /\ store' = StoredRows(tables')
    /\ UNCHANGED <<stateMaps, handler, cityResolver, offerPresenter, textNormalizer,
                   wordBuilder, inflight, ingest>>

\* POST /match for a stored event, answered from the store
MatchStored ==
  \E k \in DOMAIN store :
    /\ handler = IdleHandler
    /\ <<RequestFor(store[k]).performer_query, NULL>> \in PerformerFields
    /\ store[k].city \in CityInputs \cup CityTexts
    /\ handler' = RunAlone(RequestFor(store[k]), stateMaps, store)
    /\ UNCHANGED <<stateMaps, store, cityResolver, offerPresenter, textNormalizer,
                   wordBuilder, inflight, ingest, tables>>

NextFeed == FlushRow \/ MatchStored

SpecFeed == InitFeed /\ [][NextFeed]_vars

\* C21: a row ingested from a source that is not the master source leaves
\* every column of every Event row the table already holds as it is, and at
\* most adds the Event of the row when the table does not hold it; a step
\* that changes a column of an Event row the table holds is a step of the
\* master source "geturtix".
C21_OnlyMasterOverwritesEvents ==
  [][tables' # tables =>
       /\ Len(tables'.events) >= Len(tables.events)
       /\ Len(tables'.events) <= Len(tables.events) + 1
       /\ Len(tables'.events) = Len(tables.events) + 1
            => ~HasId(tables.events, tables'.events[Len(tables'.events)].id)
       /\ (\E k \in DOMAIN tables.events : tables'.events[k] # tables.events[k])
            => tables'.source = MASTER_EVENT_SOURCE]_vars

\* "tn" gave a row with another name, city, state and time for the event
\* "geturtix" had created, and the Event row is the one "geturtix" wrote
C21_Witness ==
  /\ tables.rows = 2
  /\ tables.source = "tn"
  /\ Len(tables.events) = 1
  /\ tables.events[1].eventName = Str("Zach Bryan")
  /\ tables.events[1].city = Str("Austin")
  /\ tables.events[1].state = Str("TX")
  /\ tables.events[1].venue = Str("Moody Center")
  /\ tables.events[1].time24 = Str("19:30")
  /\ \E k \in DOMAIN tables.offers :
       tables.offers[k].source = "tn" /\ tables.offers[k].priceMin = <<13297>>

\* a normalized column holds normText of the raw one, an empty text and
\* null being one
InSync(raw, norm) == norm = OrNull(normText(raw))

\* C22: every Event row has cityNorm = normText(city), stateNorm =
\* normText(state) and venueNorm = normText(venue), and every Performer row
\* has performerNorm = normText(name).
C22_NormalizedColumnsInSync ==
  /\ \A k \in DOMAIN tables.events :
       /\ InSync(tables.events[k].city, tables.events[k].cityNorm)
       /\ InSync(tables.events[k].state, tables.events[k].stateNorm)
       /\ InSync(tables.events[k].venue, tables.events[k].venueNorm)
  /\ \A k \in DOMAIN tables.performers :
       InSync(tables.performers[k].name, tables.performers[k].performerNorm)

\* C27: for a stored event whose stateNorm is normText of its state text,
\* and a request that carries that state text (with the performer, the city
\* and the date of the event), the handler either filters on no state or on
\* the stateNorm the event is stored with.
C27_StateFilterAgreesWithStore ==
  \A k \in DOMAIN store :
    (/\ handler.pc = "responded"
     /\ handler.req = RequestFor(store[k])
     /\ InSync(store[k].state, store[k].stateNorm))
    => (StateClause(handler.c) = NULL \/ StateClause(handler.c) = store[k].stateNorm)

(***************************************************************************)
(* Upcoming mode on its own: a request without a date, answered from a     *)
(* store that holds any of the events below.                               *)
(***************************************************************************)

\* events of upcoming mode: of today, later and past, of the city and of
\* another, of two states, for parking, and without a display name
UpcomingCatalog ==
  << EventRow("u1", Str("Zach Bryan"), "2026-11-20", Str("20:00"), Str("Austin"), Str("Texas"),
              <<Str("Zach Bryan")>>, <<>>),
     EventRow("u2", Str("PARKING: Zach Bryan"), "2026-11-10", Str("19:00"), Str("Austin"),
              Str("Texas"), <<Str("Zach Bryan")>>, <<>>),
     EventRow("u3", Str("Zach Bryan"), "2026-10-01", Str("20:00"), Str("Austin"), Str("Texas"),
              <<Str("Zach Bryan")>>, <<>>),
     EventRow("u4", Str("Zach Bryan"), "2026-11-20", Str("18:00"), Str("Austin"),
              Str("Minnesota"), <<Str("Zach Bryan")>>, <<>>),
     EventRow("u5", Str("Zach Bryan"), "2026-11-04", NULL, Str("Fort Worth"), Str("Texas"),
              <<Str("Zach Bryan")>>, <<>>),
     EventRow("u6", Str(""), "2026-11-05", Str("20:00"), Str("Austin"), Str("Texas"),
              <<Str("Zach Bryan")>>, <<>>),
     EventRow("u7", Str("Zach Bryan"), "2026-11-03", NULL, Str("Austin"), Str("Texas"),
              <<Str("Zach Bryan")>>, <<>>),
     EventRow("u8", Str("Zach Bryan"), "2026-11-20", Str("18:00"), Str("Austin"), Str("Texas"),
              <<Str("Zach Bryan")>>, <<>>),
     EventRow("u9", Str("Zach Bryan"), "2026-12-09", Str("19:30"), Str("Austin"), Str("Texas"),
              <<Str("Zach Bryan")>>, <<>>) >>

\* the rows of the catalogue at the positions of a set, in table order
RECURSIVE RowsAt(_, _)
RowsAt(catalog, held) ==
  IF catalog = <<>> THEN <<>>
  ELSE (IF Len(catalog) \in held THEN RowsAt(SubSeq(catalog, 1, Len(catalog) - 1), held)
                                       \o <<catalog[Len(catalog)]>>
        ELSE RowsAt(SubSeq(catalog, 1, Len(catalog) - 1), held))

UpcomingRequests ==
  { Body(Str("Zach Bryan"), Str("Austin"), NULL, NULL, NULL),
    Body(Str("Zach Bryan"), Str("Austin"), Str("TX"), NULL, NULL),
    Body(Str("Zach Bryan"), Str("Austin"), Str("Texas"), Str("2026-11-02"), Str("18:00")) }

InitUpcoming ==
  /\ stateMaps = StartupMaps
  /\ \E held \in SUBSET DOMAIN UpcomingCatalog : store = RowsAt(UpcomingCatalog, held)
  /\ handler = IdleHandler
  /\ cityResolver = IdleCityResolver
  /\ offerPresenter = IdleOfferPresenter
  /\ textNormalizer = IdleTextNormalizer
  /\ wordBuilder = IdleWordBuilder
  /\ inflight = NoneInFlight
  /\ ingest = NoIngest
  /\ tables = NoTables

\* POST /match without a usable date, answered from the store
MatchUpcoming ==
  \E body \in UpcomingRequests :
    /\ handler = IdleHandler
    /\ handler' = RunAlone(body, stateMaps, store)
    /\ UNCHANGED <<stateMaps, store, cityResolver, offerPresenter, textNormalizer,
                   wordBuilder, inflight, ingest, tables>>

NextUpcoming == MatchUpcoming

SpecUpcoming == InitUpcoming /\ [][NextUpcoming]_vars

\* C24: every match of an upcoming_in_city response is an event of today
\* (UTC) or later, of a city that is one of the city variants of the request,
\* of the resolved state when the request filters on a state, and with a
\* display name that does not contain "parking" in any case; the matches are
\* in ascending order of date, then time; and no upcoming query retrieves
\* more than 4 rows.
C24_UpcomingFilters ==
  (Answered /\ handler.response.reason = "upcoming_in_city") =>
    /\ \A k \in DOMAIN MatchIds :
         /\ EventById(MatchIds[k]).dateDay[1] >= NowDay
         /\ \E v \in DOMAIN handler.c.cityNormVariants :
              EventById(MatchIds[k]).cityNorm = handler.c.cityNormVariants[v]
         /\ StateClause(handler.c) # NULL =>
              EventById(MatchIds[k]).stateNorm = handler.c.stateNorm
         /\ EventById(MatchIds[k]).eventName # NULL
         /\ ~Includes(toLowerCase(EventById(MatchIds[k]).eventName), Str("parking"))
    /\ \A j, k \in DOMAIN MatchIds :
         j < k => ~StrictlyEarlier(EventById(MatchIds[k]), EventById(MatchIds[j]))
    /\ \A k \in DOMAIN handler.log :
         handler.log[k].mode = "upcoming" =>
           /\ handler.log[k].query.take = 4
           /\ Len(handler.log[k].ids) <= 4

\* an upcoming query with a state filter retrieved 4 rows, 3 of them were
\* returned, and the store holds an event of the city and state that is in
\* the past and one for parking that is earlier than the last match
C24_Witness ==
  /\ HitIn("upcoming")
  /\ handler.response.reason = "upcoming_in_city"
  /\ Len(LastEntry.ids) = 4
  /\ Len(MatchIds) = 3
  /\ StateClause(handler.c) # NULL
  /\ \E k \in DOMAIN store :
       /\ store[k].cityNorm = handler.c.cityNorm
       /\ store[k].stateNorm = handler.c.stateNorm
       /\ store[k].dateDay[1] < NowDay
  /\ \E k \in DOMAIN store :
       /\ store[k].cityNorm = handler.c.cityNorm
       /\ store[k].stateNorm = handler.c.stateNorm
       /\ store[k].dateDay[1] >= NowDay
       /\ store[k].dateDay[1] < EventById(MatchIds[Len(MatchIds)]).dateDay[1]
       /\ store[k].eventName # NULL
       /\ Includes(toLowerCase(store[k].eventName), Str("parking"))

====
